---- MODULE Spec2Model ----
(***************************************************************************)
(* The command/settings dispatch engine of FluidNC                         *)
(* (FluidNC/src/ProcessSettings.cpp): the authentication gate, the         *)
(* percent codec, the resolver do_command_or_setting, the homing            *)
(* orchestrator home_all / home, the passthrough bridge, the restore       *)
(* engine, the machine-control commands and the line entry execute_line.   *)
(*                                                                         *)
(* A character is a one-character string; a C string or string_view is a   *)
(* sequence of characters.                                                 *)
(***************************************************************************)
EXTENDS Integers, Sequences, FiniteSets, TLC

(***************************************************************************)
(* Bounds of the model.                                                    *)
(***************************************************************************)
\* longest cycle list given to $H
MaxHomeLen == 3
\* longest clear text that is percent-encoded and written to a setting
MaxClearLen == 1
\* number of lines one behaviour of the dispatch specification sends
MaxLines == 2
\* the static buffer of uriDecode grows without limit; lines that would make
\* it longer than this are not sent
MaxDecoded == 4
\* the count at which the counters of loop passes saturate
MaxCount == 3

(***************************************************************************)
(* Characters.                                                             *)
(***************************************************************************)
HexDigits == <<"0","1","2","3","4","5","6","7","8","9","A","B","C","D","E","F">>

\* ASCII 32..126
Printable ==
  <<" ","!","\"","#","$","%","&","'","(",")","*","+",",","-",".","/",
    "0","1","2","3","4","5","6","7","8","9",":",";","<","=",">","?",
    "@","A","B","C","D","E","F","G","H","I","J","K","L","M","N","O",
    "P","Q","R","S","T","U","V","W","X","Y","Z","[","\\","]","^","_",
    "\\x60","a","b","c","d","e","f","g","h","i","j","k","l","m","n","o",
    "p","q","r","s","t","u","v","w","x","y","z","{","|","}","~">>

\* (char)esc: the character with code n; a code outside 32..126 is written \xHH
Chr(n) ==
  IF n >= 32 /\ n <= 126
    THEN Printable[n - 31]
    ELSE "\\x" \o HexDigits[(n \div 16) + 1] \o HexDigits[(n % 16) + 1]

\* the value of a hex digit, -1 for any other character
HexVal(c) ==
  IF \E i \in 1..16 : HexDigits[i] = c
    THEN (CHOOSE i \in 1..16 : HexDigits[i] = c) - 1
    ELSE IF c \in {"a","b","c","d","e","f"}
      THEN CASE c = "a" -> 10 [] c = "b" -> 11 [] c = "c" -> 12
             [] c = "d" -> 13 [] c = "e" -> 14 [] c = "f" -> 15
      ELSE -1

\* string_util::from_hex on a two-character view: the byte, or -1 (false)
from_hex(two) ==
  IF HexVal(two[1]) >= 0 /\ HexVal(two[2]) >= 0
    THEN 16 * HexVal(two[1]) + HexVal(two[2])
    ELSE -1

\* 'A'..'Z' are Printable[34..59], 'a'..'z' are Printable[66..91]
UpperCase == {Printable[i] : i \in 34..59}

LowerOf == [c \in UpperCase |-> Printable[(CHOOSE i \in 34..59 : Printable[i] = c) + 32]]

ToLower(c) == IF c \in UpperCase THEN LowerOf[c] ELSE c

isdigit(c) == c \in {"0","1","2","3","4","5","6","7","8","9"}

isspace(c) == c = " "

\* cycleName - '0'
DigitVal(c) == HexVal(c)

Tail2(s) == SubSeq(s, 3, Len(s))

\* string_util::equal_ignore_case
equal_ignore_case(a, b) ==
  /\ Len(a) = Len(b)
  /\ \A i \in 1..Len(a) : ToLower(a[i]) = ToLower(b[i])

(***************************************************************************)
(* Protocol codec.                                                         *)
(***************************************************************************)
\* uriEncodeGrblCharacters: one character of the clear text
EncodeChar(c) ==
  CASE c = "%" -> <<"%","2","5">>
    [] c = "!" -> <<"%","2","1">>
    [] c = "?" -> <<"%","3","F">>
    [] c = "~" -> <<"%","7","E">>
    [] OTHER   -> <<c>>

RECURSIVE uriEncodeGrblCharacters(_)
uriEncodeGrblCharacters(clear) ==
  IF clear = <<>> THEN <<>>
  ELSE EncodeChar(Head(clear)) \o uriEncodeGrblCharacters(Tail(clear))

\* the loop of uriDecode: buf is the function-static string `decoded`, which
\* the function appends to and never clears; s is the rest of the view
RECURSIVE uriDecodeLoop(_, _)
uriDecodeLoop(buf, s) ==
  IF s = <<>> THEN buf
  ELSE IF Head(s) = "%"
    THEN IF Len(Tail(s)) < 2 THEN buf                       \* too short: goto done
         ELSE IF from_hex(SubSeq(Tail(s), 1, 2)) < 0 THEN buf  \* not hex: goto done
         ELSE uriDecodeLoop(Append(buf, Chr(from_hex(SubSeq(Tail(s), 1, 2)))),
                            Tail2(Tail(s)))
    ELSE uriDecodeLoop(Append(buf, Head(s)), Tail(s))

\* uriDecode(s) called when the static buffer holds buf: the new content of
\* the buffer, which is also the string returned
uriDecode(buf, s) == uriDecodeLoop(buf, s)

(***************************************************************************)
(* Authentication gate (ENABLE_AUTHENTICATION build).                      *)
(***************************************************************************)
Levels == {"LEVEL_GUEST", "LEVEL_USER", "LEVEL_ADMIN"}
Permissions == {"WG", "WU", "WA"}

\* a gate that treats a User as it treats a Guest
auth_failed_UserAsGuest(permissions, value, auth_level) ==
  CASE auth_level = "LEVEL_ADMIN" -> FALSE
    [] auth_level \in {"LEVEL_GUEST", "LEVEL_USER"} -> permissions # "WG"
    [] OTHER -> TRUE

auth_failed(permissions, value, auth_level) ==
  CASE auth_level = "LEVEL_ADMIN" -> FALSE
    [] auth_level = "LEVEL_GUEST" -> permissions # "WG"
    [] auth_level = "LEVEL_USER"  -> IF value = <<>> THEN FALSE
                                     ELSE permissions = "WA"
    [] OTHER -> TRUE


(***************************************************************************)
(* Line splitting and name matching.                                       *)
(***************************************************************************)
\* index of the first delim in s, 0 when there is none
FirstIndex(s, delim) ==
  IF \E i \in 1..Len(s) : s[i] = delim
    THEN CHOOSE i \in 1..Len(s) : s[i] = delim /\ \A j \in 1..(i - 1) : s[j] # delim
    ELSE 0

\* string_util::split(key, value, delim): cut at the first delim
split(s, delim) ==
  LET i == FirstIndex(s, delim)
  IN IF i = 0
       THEN [key |-> s, value |-> <<>>, found |-> FALSE]
       ELSE [key |-> SubSeq(s, 1, i - 1), value |-> SubSeq(s, i + 1, Len(s)), found |-> TRUE]

RECURSIVE trimLeft(_)
trimLeft(s) == IF s # <<>> /\ isspace(Head(s)) THEN trimLeft(Tail(s)) ELSE s

RECURSIVE trimRight(_)
trimRight(s) ==
  IF s # <<>> /\ isspace(s[Len(s)]) THEN trimRight(SubSeq(s, 1, Len(s) - 1)) ELSE s

\* string_util::trim
trim(s) == trimRight(trimLeft(s))

\* Regex.cpp: the simple matcher ('^' and '$' anchors, '*' any run of
\* characters), case-insensitive as do_command_or_setting calls it
RECURSIVE matchHere(_, _)
RECURSIVE matchStar(_, _)
matchHere(regexp, text) ==
  IF regexp = <<>> THEN TRUE
  ELSE IF Head(regexp) = "*" THEN matchStar(Tail(regexp), text)
  ELSE IF Head(regexp) = "$" /\ Len(regexp) = 1 THEN text = <<>>
  ELSE IF text # <<>> /\ ToLower(Head(regexp)) = ToLower(Head(text))
    THEN matchHere(Tail(regexp), Tail(text))
  ELSE FALSE

matchStar(regexp, text) ==
  \E i \in 0..Len(text) : matchHere(regexp, SubSeq(text, i + 1, Len(text)))

regexMatch(regexp, text) ==
  IF regexp # <<>> /\ Head(regexp) = "^"
    THEN matchHere(Tail(regexp), text)
    ELSE \E i \in 0..Len(text) : matchHere(regexp, SubSeq(text, i + 1, Len(text)))

(***************************************************************************)
(* Registry.                                                               *)
(***************************************************************************)
\* type_t
GRBL == 1
EXTENDED == 2
WEBSET == 3
PIN == 4

\* Command::List: grblName, name, action, cmdChecker, permissions
\* (the UserCommand constructor's default permission is WG)
Cmd(grblName, name, action, checker, permissions) ==
  [grblName |-> grblName, name |-> name, action |-> action,
   checker |-> checker, permissions |-> permissions]

CommandList ==
  << Cmd(<<>>, <<"H","e","l","p">>, "show_help", "anyState", "WG"),
     Cmd(<<"H">>, <<"H","o","m","e">>, "home_all", "allowConfigStates", "WG"),
     Cmd(<<"H","X">>, <<"H","o","m","e","/","X">>, "home_x", "allowConfigStates", "WG"),
     Cmd(<<"H","Y">>, <<"H","o","m","e","/","Y">>, "home_y", "allowConfigStates", "WG"),
     Cmd(<<"U","P">>, <<"U","a","r","t","/","P","a","s","s","t","h","r","o","u","g","h">>,
         "uartPassthrough", "notIdleOrAlarm", "WG"),
     Cmd(<<"R","S","T">>,
         <<"S","e","t","t","i","n","g","s","/","R","e","s","t","o","r","e">>,
         "restore_settings", "notIdleOrAlarm", "WA"),
     Cmd(<<"C">>, <<"G","C","o","d","e","/","C","h","e","c","k">>,
         "toggle_check_mode", "anyState", "WG"),
     Cmd(<<"X">>, <<"A","l","a","r","m","/","D","i","s","a","b","l","e">>,
         "disable_alarm_lock", "anyState", "WG"),
     Cmd(<<"M","D">>, <<"M","o","t","o","r","/","D","i","s","a","b","l","e">>,
         "motor_disable", "notIdleOrAlarm", "WG"),
     Cmd(<<"M","E">>, <<"M","o","t","o","r","/","E","n","a","b","l","e">>,
         "motor_enable", "notIdleOrAlarm", "WG"),
     Cmd(<<"J">>, <<"J","o","g">>, "doJog", "notIdleOrJog", "WG"),
     Cmd(<<"S">>, <<"S","e","t","t","i","n","g","s","/","L","i","s","t">>,
         "list_settings", "cycleOrHold", "WG"),
     Cmd(<<"S","C">>,
         <<"S","e","t","t","i","n","g","s","/","L","i","s","t","C","h","a","n","g","e","d">>,
         "list_changed_settings", "cycleOrHold", "WG"),
     Cmd(<<"1","3">>, <<"R","e","p","o","r","t","/","I","n","c","h","e","s">>,
         "switchInchMM", "notIdleOrAlarm", "WG"),
     \* registered by make_file_commands()
     Cmd(<<"E","S","P","7","0","0">>, <<"L","o","c","a","l","F","S","/","R","u","n">>,
         "runLocalFile", "notIdleOrAlarm", "WU") >>

\* Setting::List entries: hasGrbl is getGrblName() != NULL, described is
\* getDescription() != NULL
Set(name, hasGrbl, grblName, permissions, type, described, default) ==
  [name |-> name, hasGrbl |-> hasGrbl, grblName |-> grblName,
   permissions |-> permissions, type |-> type, described |-> described,
   default |-> default]

\* a registry as make_settings() builds it
SettingsPlain ==
  << Set(<<"S","t","a","/","S","S","I","D">>, FALSE, <<>>, "WA", WEBSET, FALSE, <<"w">>),
     Set(<<"R","e","p","o","r","t","/","S","t","a","t","u","s">>, TRUE, <<"1","0">>,
         "WG", GRBL, FALSE, <<"1">>),
     Set(<<"S","t","a","r","t","/","M","e","s","s","a","g","e">>, FALSE, <<>>,
         "WU", EXTENDED, FALSE, <<"m">>) >>

\* a registry in which a Setting carries the names of the Command $13, and
\* another the name of the configuration item
SettingsShadowed ==
  << Set(<<"S","t","a","/","S","S","I","D">>, FALSE, <<>>, "WA", WEBSET, FALSE, <<"w">>),
     Set(<<"R","e","p","o","r","t","/","I","n","c","h","e","s">>, TRUE, <<"1","3">>,
         "WG", GRBL, FALSE, <<"7">>),
     Set(<<"b","o","a","r","d">>, TRUE, <<"1","0">>, "WU", EXTENDED, FALSE, <<"m">>) >>

\* a registry with a Setting that has a description and the startup lines
SettingsRestorable ==
  << Set(<<"S","t","a","/","S","S","I","D">>, FALSE, <<>>, "WA", WEBSET, TRUE, <<"w">>),
     Set(<<"R","e","p","o","r","t","/","S","t","a","t","u","s">>, TRUE, <<"1","0">>,
         "WG", GRBL, FALSE, <<"1">>),
     Set(<<"L","i","n","e","0">>, FALSE, <<>>, "WG", EXTENDED, FALSE, <<"g">>),
     Set(<<"L","i","n","e","1">>, FALSE, <<>>, "WG", EXTENDED, FALSE, <<"h">>) >>

\* a registry with a password, a Setting of type PIN
SettingsWithPin ==
  << Set(<<"S","t","a","/","S","S","I","D">>, FALSE, <<>>, "WA", WEBSET, FALSE, <<"w">>),
     Set(<<"R","e","p","o","r","t","/","S","t","a","t","u","s">>, TRUE, <<"1","0">>,
         "WG", GRBL, FALSE, <<"1">>),
     Set(<<"S","t","a","r","t","/","M","e","s","s","a","g","e">>, FALSE, <<>>,
         "WU", EXTENDED, FALSE, <<"m">>),
     Set(<<"U","s","e","r","P","a","s","s","w","o","r","d">>, FALSE, <<>>,
         "WA", PIN, FALSE, <<"p">>) >>

\* the one item of the structured configuration tree
ConfigItem == <<"b","o","a","r","d">>

States == {"Idle", "Alarm", "ConfigAlarm", "Homing", "CheckMode", "Jog", "Cycle"}

\* the axes of the machine, in bit order
AxisNames == <<"X", "Y", "Z">>
AxisSet == {"X", "Y", "Z"}

\* Machine::Homing::AllCycles: the mask with no bit set
AllCycles == {}

\* per axis: whether the axis has a homing section, its cycle, allow_single_axis
Hom(has, cycle, allow) == [has |-> has, cycle |-> cycle, allow |-> allow]

MachineConfigs ==
  { [X |-> Hom(TRUE, 1, TRUE), Y |-> Hom(TRUE, 2, TRUE),  Z |-> Hom(TRUE, 2, TRUE)],
    [X |-> Hom(TRUE, 1, TRUE), Y |-> Hom(TRUE, 2, FALSE), Z |-> Hom(FALSE, 0, FALSE)],
    [X |-> Hom(TRUE, 3, TRUE), Y |-> Hom(TRUE, 1, TRUE),  Z |-> Hom(TRUE, 2, TRUE)],
    [X |-> Hom(FALSE, 0, FALSE), Y |-> Hom(FALSE, 0, FALSE), Z |-> Hom(FALSE, 0, FALSE)] }

\* coordinate systems (CoordIndex::Begin .. CoordIndex::End - 1)
CoordIndex == {"G54", "G55"}

VARIABLES
  settingList,    \* Setting::List
  settingValue,   \* the current value of each Setting
  decoded,        \* the function-static string of uriDecode
  sysState,       \* sys.state
  configValue,    \* the value of the configuration-tree item
  reportInches,   \* config->_reportInches
  coords,         \* the coordinate-system offsets
  coord_system,   \* gc_state.coord_system
  coord_select,   \* gc_state.modal.coord_select
  axisHoming,     \* the homing sections of the axes
  doorAjar,       \* config->_control->safety_door_ajar()
  pinsBlock,      \* config->_control->pins_block_unlock()
  pc,             \* where the command-processing path is
  homeRest,       \* home_all: the cycles of the list still to run
  cycleLog,       \* the masks Machine::Homing::run_cycles was called with by the current $H
  last,           \* the line dispatched last: its parts, its target and its result
  nLines,         \* the lines sent so far, where a specification limits them
  loopIters,      \* passes of the blocking loops made by the current command
  rtPumps,        \* calls of protocol_execute_realtime() made by the current command
  uartCfg,        \* config->_uarts[1 .. MAX_N_UARTS - 1]
  uartChannels,   \* config->_uart_channels: the uart number of each UartChannel
  outChannel,     \* the channel the lines come from
  paused,         \* the channels whose input polling is paused
  inPassthrough,  \* the uarts that are in passthrough mode
  ticks,          \* xTaskGetTickCount()
  skip_blocks,    \* gc_state.skip_blocks
  stuck,          \* config->_control->stuck()
  sharedDisable,  \* config->_axes->_sharedStepperDisable.defined()
  up              \* uartPassthrough: timeout, uart_num, channel, last_ticks, and
                  \* whether the last pass of the relay loop moved bytes

vars == <<settingList, settingValue, decoded, sysState, configValue, reportInches,
          coords, coord_system, coord_select, axisHoming, doorAjar, pinsBlock,
          pc, homeRest, cycleLog, last, nLines, loopIters, rtPumps, uartCfg,
          uartChannels, outChannel, paused, inPassthrough, ticks, up,
          skip_blocks, stuck, sharedDisable>>

\* what uartPassthrough changes
upState == <<paused, inPassthrough, up>>

\* what no command changes
upEnv == <<uartCfg, uartChannels, outChannel, skip_blocks, stuck, sharedDisable>>

\* a counter of loop passes, which stops counting at MaxCount
Sat(n) == IF n < MaxCount THEN n + 1 ELSE MaxCount

\* what a command or a setting write can change
machine == <<settingValue, sysState, configValue, reportInches, coords, coord_system>>

(***************************************************************************)
(* State guard of Command::action.                                         *)
(***************************************************************************)
\* the cmdChecker of a command: TRUE when the state forbids the command
cmdChecker(checker, state) ==
  CASE checker = "anyState"          -> FALSE
    [] checker = "allowConfigStates" -> state \notin {"Idle", "Alarm", "ConfigAlarm"}
    [] checker = "notIdleOrAlarm"    -> state \notin {"Idle", "Alarm"}
    [] checker = "notIdleOrJog"      -> state \notin {"Idle", "Jog"}
    [] checker = "cycleOrHold"       -> state \in {"Cycle", "Hold"}
    [] OTHER -> FALSE

\* the error of the state guard, "Ok" when the command may run
StateGuard(checker, state) ==
  IF state = "ConfigAlarm" /\ checker \notin {"anyState", "allowConfigStates"}
    THEN "ConfigurationInvalid"
  ELSE IF cmdChecker(checker, state) THEN "IdleError"
  ELSE "Ok"

(***************************************************************************)
(* Restore engine.                                                         *)
(***************************************************************************)
\* SettingsRestore flags, as the set of bits
RestoreAll == {"Defaults", "Parameters", "StartupLines", "Wifi"}

\* a table in which $ and # have changed places
restoreCommands_Swapped(token) ==
  CASE token = <<"#">> \/ token = <<"s","e","t","t","i","n","g","s">> -> {"Defaults"}
    [] token = <<"$">> \/ token = <<"g","c","o","d","e">>             -> {"Parameters"}
    [] token = <<"*">> \/ token = <<"a","l","l">>                     -> RestoreAll
    [] token = <<"@">> \/ token = <<"w","i","f","i">>                 -> {"Wifi"}
    [] OTHER -> {}

restoreCommands(token) ==
  CASE token = <<"$">> \/ token = <<"s","e","t","t","i","n","g","s">> -> {"Defaults"}
    [] token = <<"#">> \/ token = <<"g","c","o","d","e">>             -> {"Parameters"}
    [] token = <<"*">> \/ token = <<"a","l","l">>                     -> RestoreAll
    [] token = <<"@">> \/ token = <<"w","i","f","i">>                 -> {"Wifi"}
    [] OTHER -> {}

BoolInt(b) == IF b THEN 1 ELSE 0

Line0 == <<"L","i","n","e","0">>
Line1 == <<"L","i","n","e","1">>

\* a restore whose Defaults loop does not exempt the startup lines
RestoresSetting_NoExemption(restore_flag, s) ==
  \/ "Wifi" \in restore_flag /\ BoolInt(s.type = 0) = WEBSET
  \/ "Defaults" \in restore_flag /\ ~s.described

\* whether settings_restore(restore_flag) calls setDefault() on setting s
RestoresSetting(restore_flag, s) ==
  \/ "Wifi" \in restore_flag /\ BoolInt(s.type = 0) = WEBSET   \* !s->getType() == WEBSET
  \/ /\ "Defaults" \in restore_flag
     /\ ~s.described
     /\ \/ "StartupLines" \in restore_flag
        \/ s.name # Line0 /\ s.name # Line1

\* a restore in which Parameters also resets the Settings
settings_restore_ParametersAll(restore_flag) ==
  /\ settingValue' = [i \in DOMAIN settingValue |->
                        IF RestoresSetting(restore_flag, settingList[i])
                           \/ "Parameters" \in restore_flag
                          THEN settingList[i].default ELSE settingValue[i]]
  /\ IF "Parameters" \in restore_flag
       THEN /\ coords' = [idx \in CoordIndex |-> 0]
            /\ coord_system' = coords'[coord_select]
       ELSE UNCHANGED <<coords, coord_system>>

settings_restore(restore_flag) ==
  /\ settingValue' = [i \in DOMAIN settingValue |->
                        IF RestoresSetting(restore_flag, settingList[i])
                          THEN settingList[i].default ELSE settingValue[i]]
  /\ IF "Parameters" \in restore_flag
       THEN /\ coords' = [idx \in CoordIndex |-> 0]
            /\ coord_system' = coords'[coord_select]
       ELSE UNCHANGED <<coords, coord_system>>

(***************************************************************************)
(* Homing orchestrator.                                                    *)
(***************************************************************************)
\* Machine::Homing::axis_mask_from_cycle
axis_mask_from_cycle(cycle) ==
  {a \in AxisSet : axisHoming[a].has /\ axisHoming[a].cycle = cycle}

\* Machine::Axes::homingMask
homingMask == {a \in AxisSet : axisHoming[a].has}

\* Axes::namesToMask: FALSE on a letter that names no axis
namesToMaskOk(value) == \A i \in 1..Len(value) : value[i] \in AxisSet \/ value[i] \in {"x","y","z"}

namesToMask(value) ==
  {a \in AxisSet : \E i \in 1..Len(value) : ToLower(value[i]) = ToLower(a)}

\* the checks of home() without the check of the safety door
homeInterlock_NoDoor(axisMask) ==
  IF pinsBlock THEN "CheckControlPins"
  ELSE IF axisMask # AllCycles
          /\ \E a \in axisMask : ~(axisHoming[a].has /\ axisHoming[a].allow)
    THEN "SingleAxisHoming"
  ELSE IF sysState = "ConfigAlarm" THEN "ConfigurationInvalid"
  ELSE IF homingMask = {} THEN "SettingDisabled"
  ELSE "Ok"

\* home(): the error of the checks made before run_cycles, "Ok" when all pass
homeInterlock(axisMask) ==
  IF pinsBlock THEN "CheckControlPins"
  ELSE IF axisMask # AllCycles
          /\ \E a \in axisMask : ~(axisHoming[a].has /\ axisHoming[a].allow)
    THEN "SingleAxisHoming"
  ELSE IF sysState = "ConfigAlarm" THEN "ConfigurationInvalid"
  ELSE IF homingMask = {} THEN "SettingDisabled"
  ELSE IF doorAjar THEN "CheckDoor"
  ELSE "Ok"

\* home_all: the digits of value
ndigits(value) == Cardinality({i \in 1..Len(value) : isdigit(value[i])})

\* a first loop that looks at the first character only
BadCycleDigitFirstOnly(value) ==
  /\ value # <<>>
  /\ isdigit(value[1])
  /\ axis_mask_from_cycle(DigitVal(value[1])) = {}

\* home_all: the first loop finds a digit whose cycle has no axes
BadCycleDigit(value) ==
  \E i \in 1..Len(value) :
     isdigit(value[i]) /\ axis_mask_from_cycle(DigitVal(value[i])) = {}

\* the masks of a cycle list from right to left
CycleMasksReversed(value) ==
  [i \in 1..Len(value) |-> axis_mask_from_cycle(DigitVal(value[Len(value) + 1 - i]))]

\* home_all: the masks of a cycle list, in the order of the list
CycleMasks(value) == [i \in 1..Len(value) |-> axis_mask_from_cycle(DigitVal(value[i]))]

(***************************************************************************)
(* Dispatch.                                                               *)
(***************************************************************************)
\* the record kept of a dispatched line: kind and index name the branch of
\* do_command_or_setting that took it and the entry it found, denied is the
\* answer of auth_failed, action the command action that was invoked, shown
\* what was written to the channel, changed whether the machine changed,
\* written the settings whose value changed, calls the calls made to the
\* motion system, the motors, the macros and the G-code interpreter, in
\* order, gcode the line given to gc_execute_line, raised the exception that
\* the configuration tree raised
Ctx(line, auth_level, key, value, hasSep) ==
  [line |-> line, level |-> auth_level, key |-> key, value |-> value,
   hasSep |-> hasSep, kind |-> "none", index |-> 0, denied |-> FALSE,
   action |-> "none", err |-> "Running", shown |-> <<>>, changed |-> FALSE,
   written |-> {}, calls |-> <<>>, gcode |-> <<>>, raised |-> "none"]

\* ctx after a call of the function named
Call(ctx, name) == [ctx EXCEPT !.calls = Append(@, name)]

\* the dispatch returns err, having written shown to the channel
Finish(ctx, err, shown) ==
  last' = [ctx EXCEPT !.err = err, !.shown = shown, !.changed = (machine' # machine),
                      !.written = {i \in DOMAIN settingValue :
                                     settingValue'[i] # settingValue[i]}]

\* the command-processing path is free again
Returned == pc' = "idle" /\ homeRest' = <<>>

\* the first Command of Command::List that key names, 0 when none does
CommandMatch(key) ==
  LET hit(i) == \/ equal_ignore_case(CommandList[i].name, key)
                \/ equal_ignore_case(CommandList[i].grblName, key)
  IN IF \E i \in 1..Len(CommandList) : hit(i)
       THEN CHOOSE i \in 1..Len(CommandList) : hit(i) /\ \A j \in 1..(i - 1) : ~hit(j)
       ELSE 0

\* the first Setting whose canonical name is key, 0 when none
SettingByName(key) ==
  LET hit(i) == equal_ignore_case(settingList[i].name, key)
  IN IF \E i \in 1..Len(settingList) : hit(i)
       THEN CHOOSE i \in 1..Len(settingList) : hit(i) /\ \A j \in 1..(i - 1) : ~hit(j)
       ELSE 0

\* the first Setting whose legacy name is key, 0 when none
SettingByGrblName(key) ==
  LET hit(i) == settingList[i].hasGrbl /\ equal_ignore_case(settingList[i].grblName, key)
  IN IF \E i \in 1..Len(settingList) : hit(i)
       THEN CHOOSE i \in 1..Len(settingList) : hit(i) /\ \A j \in 1..(i - 1) : ~hit(j)
       ELSE 0

\* RuntimeSetting: the configuration tree handles key
ConfigHandles(key) == equal_ignore_case(ConfigItem, key)

\* show_setting: what is written for one setting
show_setting(name, value) == [name |-> name, value |-> uriEncodeGrblCharacters(value)]

getStringValue(i) == settingValue[i]

getCompatibleValue(i) == settingValue[i]

\* the settings the pattern key matches, in list order
RECURSIVE PatternShown(_, _)
PatternShown(key, i) ==
  IF i > Len(settingList) THEN <<>>
  ELSE (IF regexMatch(key, settingList[i].name)
          THEN <<show_setting(settingList[i].name, getStringValue(i))>>
          ELSE <<>>) \o PatternShown(key, i + 1)

\* what Machine::Homing::run_cycles leaves in sys.state: the cycle runs, or
\* it could not start and raised an alarm
RunCyclesOutcomes == {"Homing", "Alarm"}

\* what the configuration tree does with a value: it accepts it, or one of
\* its three passes raises: the set by name (config->group(rts)), the
\* validation (validate), the post-parse pass (afterParse)
Outcome(phase, exc) == [phase |-> phase, exc |-> exc]

ConfigOutcomes ==
  {Outcome("none", "none")}
    \cup {Outcome(ph, e) : ph \in {"group", "validate", "afterParse"},
                           e \in {"ParseException", "AssertionFailed"}}
    \cup {Outcome("validate", "std::exception")}

\* handlers that do not catch AssertionFailed outside the validation
Catches_ParseOnly(phase, exc) ==
  IF phase = "validate" THEN TRUE ELSE exc = "ParseException"

\* the handlers of do_command_or_setting: catch (std::exception&) around
\* the validation, catch (ParseException&) and catch (AssertionFailed&)
\* around the three passes
Catches(phase, exc) ==
  IF phase = "validate" THEN TRUE ELSE exc \in {"ParseException", "AssertionFailed"}

\* a loop that notes the error of home() and goes on with the list
RunHomeIgnoringError(masks, log, ctx) ==
  LET e == homeInterlock(Head(masks))
  IN IF e # "Ok"
       THEN /\ UNCHANGED sysState
            /\ cycleLog' = log
            /\ homeRest' = Tail(masks)
            /\ pc' = IF Tail(masks) = <<>> THEN "idle" ELSE "home_wait"
            /\ Finish(ctx, e, <<>>)
       ELSE /\ sysState' \in RunCyclesOutcomes
            /\ cycleLog' = Append(log, Head(masks))
            /\ homeRest' = Tail(masks)
            /\ pc' = "home_wait"
            /\ Finish(ctx, "Running", <<>>)

\* home(requestedAxes) for the head of masks, then the wait loop; log is the
\* record of the cycles this $H has started
RunHome(masks, log, ctx) ==
  LET e == homeInterlock(Head(masks))
  IN IF e # "Ok"
       THEN /\ UNCHANGED sysState
            /\ cycleLog' = log
            /\ Returned
            /\ Finish(ctx, e, <<>>)
       ELSE /\ sysState' \in RunCyclesOutcomes      \* Machine::Homing::run_cycles
            /\ cycleLog' = Append(log, Head(masks))
            /\ homeRest' = Tail(masks)
            /\ pc' = "home_wait"
            /\ Finish(ctx, "Running", <<>>)

\* a home_all that homes the axes of a letter list one after the other
home_all_LetterByLetter(value, ctx) ==
  /\ UNCHANGED <<settingValue, configValue, reportInches, coords, coord_system, decoded>>
  /\ UNCHANGED <<upState, ticks>>
  /\ IF value = <<>>
       THEN RunHome(<<AllCycles>>, <<>>, ctx)
     ELSE IF BadCycleDigit(value)
       THEN UNCHANGED sysState /\ cycleLog' = <<>> /\ Returned
            /\ Finish(ctx, "InvalidValue", <<>>)
     ELSE IF ndigits(value) # 0
       THEN IF ndigits(value) # Len(value)
              THEN UNCHANGED sysState /\ cycleLog' = <<>> /\ Returned
                   /\ Finish(ctx, "InvalidValue", <<>>)
              ELSE RunHome(CycleMasks(value), <<>>, ctx)
     ELSE IF ~namesToMaskOk(value)
       THEN UNCHANGED sysState /\ cycleLog' = <<>> /\ Returned
            /\ Finish(ctx, "InvalidValue", <<>>)
     ELSE RunHome([i \in 1..Len(value) |-> namesToMask(<<value[i]>>)], <<>>, ctx)

home_all(value, ctx) ==
  /\ UNCHANGED <<settingValue, configValue, reportInches, coords, coord_system, decoded>>
  /\ UNCHANGED <<upState, ticks>>
  /\ IF value = <<>>                                \* value == nullptr
       THEN RunHome(<<AllCycles>>, <<>>, ctx)
     ELSE IF BadCycleDigit(value)
       THEN UNCHANGED sysState /\ cycleLog' = <<>> /\ Returned
            /\ Finish(ctx, "InvalidValue", <<>>)
     ELSE IF ndigits(value) # 0
       THEN IF ndigits(value) # Len(value)
              THEN UNCHANGED sysState /\ cycleLog' = <<>> /\ Returned
                   /\ Finish(ctx, "InvalidValue", <<>>)
              ELSE RunHome(CycleMasks(value), <<>>, ctx)
     ELSE IF ~namesToMaskOk(value)
       THEN UNCHANGED sysState /\ cycleLog' = <<>> /\ Returned
            /\ Finish(ctx, "InvalidValue", <<>>)
     ELSE RunHome(<<namesToMask(value)>>, <<>>, ctx)

\* home_x, home_y: home(bitnum_to_mask(axis))
home_axis(axis, ctx) ==
  /\ UNCHANGED <<settingValue, configValue, reportInches, coords, coord_system, decoded>>
  /\ UNCHANGED <<upState, ticks>>
  /\ RunHome(<<{axis}>>, <<>>, ctx)

restore_settings(value, ctx) ==
  /\ UNCHANGED <<sysState, configValue, reportInches, decoded, upState, ticks>>
  /\ cycleLog' = <<>> /\ Returned
  /\ IF value = <<>> \/ restoreCommands(value) = {}
       THEN UNCHANGED <<settingValue, coords, coord_system>>
            /\ Finish(ctx, "InvalidStatement", <<>>)
       ELSE settings_restore(restoreCommands(value)) /\ Finish(ctx, "Ok", <<>>)

switchInchMM(value, ctx) ==
  /\ UNCHANGED <<settingValue, sysState, configValue, coords, coord_system, decoded>>
  /\ UNCHANGED <<upState, ticks>>
  /\ cycleLog' = <<>> /\ Returned
  /\ IF value = <<>>
       THEN UNCHANGED reportInches
            /\ Finish(ctx, "Ok", <<[name |-> <<"1","3">>,
                                   value |-> IF reportInches THEN <<"1">> ELSE <<"0">>]>>)
       ELSE reportInches' = (value[1] = "1") /\ Finish(ctx, "Ok", <<>>)

\* "<Authentication required>", shown in place of a value
Placeholder ==
  <<"<","A","u","t","h","e","n","t","i","c","a","t","i","o","n"," ",
    "r","e","q","u","i","r","e","d",">">>

\* "(Passwords not shown)", the line that ends the list of changed Settings
PasswordsNotShown ==
  [name |-> <<>>,
   value |-> <<"(","P","a","s","s","w","o","r","d","s"," ","n","o","t"," ",
               "s","h","o","w","n",")">>]

\* the std::string_view that list_settings makes of its const char* value
\* for auth_failed. For a null pointer the conversion is undefined: the
\* length is strlen(nullptr), a load from address 0 that stops the firmware,
\* or is never computed, or is whatever lies at that address
ValueViews(value) ==
  IF value # <<>> THEN {[crash |-> FALSE, view |-> value]}
  ELSE {[crash |-> TRUE, view |-> <<>>], [crash |-> FALSE, view |-> <<>>],
        [crash |-> FALSE, view |-> <<"?">>]}

\* list_settings: every Setting that is not a PIN, with its value or the
\* placeholder; the gate is asked with the value given to the command
list_settings(value, ctx) ==
  /\ UNCHANGED <<settingValue, sysState, configValue, reportInches, coords, coord_system,
                 decoded, upState, ticks>>
  /\ cycleLog' = <<>> /\ Returned
  /\ \E v \in ValueViews(value) :
       IF v.crash THEN Finish(ctx, "Panic", <<>>)
       ELSE LET idx == SelectSeq([i \in 1..Len(settingList) |-> i],
                                 LAMBDA i : settingList[i].type # PIN)
                displayValue(i) ==
                  IF auth_failed(settingList[i].permissions, v.view, ctx.level)
                    THEN Placeholder ELSE getStringValue(i)
            IN Finish(ctx, "Ok",
                      [k \in 1..Len(idx) |->
                         show_setting(settingList[idx[k]].name, displayValue(idx[k]))])

\* list_changed_settings: the Settings that differ from their default; the
\* local value, the current string of the Setting, hides the parameter, so
\* the gate is asked with the current value of each Setting
list_changed_settings(value, ctx) ==
  /\ UNCHANGED <<settingValue, sysState, configValue, reportInches, coords, coord_system,
                 decoded, upState, ticks>>
  /\ cycleLog' = <<>> /\ Returned
  /\ LET idx == SelectSeq([i \in 1..Len(settingList) |-> i],
                          LAMBDA i : /\ ~auth_failed(settingList[i].permissions,
                                                     getStringValue(i), ctx.level)
                                     /\ getStringValue(i) # settingList[i].default
                                     /\ settingList[i].type # PIN)
     IN Finish(ctx, "Ok",
               Append([k \in 1..Len(idx) |->
                         show_setting(settingList[idx[k]].name, getStringValue(idx[k]))],
                      PasswordsNotShown))

\* a command whose action changes nothing that is modelled
NoEffect(ctx, err) ==
  /\ UNCHANGED <<settingValue, sysState, configValue, reportInches, coords, coord_system,
                 decoded, upState, ticks>>
  /\ cycleLog' = <<>> /\ Returned
  /\ Finish(ctx, err, <<>>)

(***************************************************************************)
(* Passthrough bridge.                                                     *)
(***************************************************************************)
\* the uarts are config->_uarts[0 .. MAX_N_UARTS - 1]
MAX_N_UARTS == 3

\* tick counts are unsigned and wrap; a tick is a millisecond, and the model
\* lets time pass in steps of TickStep
TickModulus == 8000
TickStep == 1000

\* a uart of the configuration: present is config->_uarts[n] != nullptr
Uart(present, name, passthrough_baud) ==
  [present |-> present, name |-> name, passthrough_baud |-> passthrough_baud]

kUart1 == <<"u","a","r","t","1">>
kUart2 == <<"u","a","r","t","2">>
kAuto == <<"a","u","t","o">>

NoUart == Uart(FALSE, <<>>, 0)

UartConfigs ==
  { <<Uart(TRUE, kUart1, 115200), Uart(TRUE, kUart2, 0)>>,
    <<NoUart, Uart(TRUE, kUart2, 115200)>>,
    <<Uart(TRUE, kUart1, 0), NoUart>>,
    <<NoUart, NoUart>> }

\* config->_uart_channels: the console on uart 0 and a channel on uart 1
UartChannelList == <<[id |-> "uart_channel0", uart_num |-> 0],
                     [id |-> "uart_channel1", uart_num |-> 1]>>

\* string_util::from_decimal: the number, -1 for false
RECURSIVE DecimalValue(_)
DecimalValue(s) ==
  IF s = <<>> THEN 0 ELSE 10 * DecimalValue(SubSeq(s, 1, Len(s) - 1)) + DigitVal(s[Len(s)])

from_decimal(s) ==
  IF s # <<>> /\ \A i \in 1..Len(s) : isdigit(s[i]) THEN DecimalValue(s) ELSE -1

\* the tokens that split_prefix(rest, first, ',') yields in turn
RECURSIVE SplitTokens(_)
SplitTokens(rest) ==
  IF rest = <<>> THEN <<>>
  ELSE <<split(rest, ",").key>> \o SplitTokens(split(rest, ",").value)

\* the locals of uartPassthrough before the value is parsed
UpDefault == [timeout |-> 2000, uart_name |-> kAuto, ok |-> TRUE]

\* the loop over the tokens of the value; ok is FALSE when it returned
\* InvalidValue
RECURSIVE upParse(_, _)
upParse(tokens, acc) ==
  IF tokens = <<>> THEN acc
  ELSE LET first == Head(tokens)
       IN IF equal_ignore_case(first, kAuto)
            THEN upParse(Tail(tokens), [acc EXCEPT !.uart_name = kAuto])
          ELSE IF first # <<>> /\ ToLower(first[Len(first)]) = "s"
            THEN LET n == from_decimal(SubSeq(first, 1, Len(first) - 1))
                 IN IF n < 0 THEN [acc EXCEPT !.ok = FALSE]
                    ELSE upParse(Tail(tokens), [acc EXCEPT !.timeout = n * 1000])
          ELSE upParse(Tail(tokens), [acc EXCEPT !.uart_name = first])

\* the search for a uart with passthrough_baud: uart_num after the loop
upFindAuto ==
  LET hit(n) == uartCfg[n].present /\ uartCfg[n].passthrough_baud # 0
  IN IF \E n \in 1..(MAX_N_UARTS - 1) : hit(n)
       THEN CHOOSE n \in 1..(MAX_N_UARTS - 1) : hit(n) /\ \A m \in 1..(n - 1) : ~hit(m)
       ELSE MAX_N_UARTS

\* the search for a uart by name: uart_num after the loop, 0 when the loop
\* returned because the uart has no passthrough_baud
upFindNamed(uart_name) ==
  LET hit(n) == uartCfg[n].present /\ uartCfg[n].name = uart_name
  IN IF \E n \in 1..(MAX_N_UARTS - 1) : hit(n)
       THEN LET n == CHOOSE k \in 1..(MAX_N_UARTS - 1) : hit(k) /\ \A m \in 1..(k - 1) : ~hit(m)
            IN IF uartCfg[n].passthrough_baud = 0 THEN 0 ELSE n
       ELSE MAX_N_UARTS

\* the UartChannel on uart_num, "none" for nullptr
upChannelOf(uart_num) ==
  LET hit(n) == uartChannels[n].uart_num = uart_num
  IN IF \E n \in 1..Len(uartChannels) : hit(n)
       THEN uartChannels[CHOOSE n \in 1..Len(uartChannels) :
                            hit(n) /\ \A m \in 1..(n - 1) : ~hit(m)].id
       ELSE "none"

\* the locals of uartPassthrough when it is not running
UpIdle ==
  [timeout |-> 2000, uart_num |-> 0, channel |-> "none", last_ticks |-> 0, moved |-> FALSE]

\* tick arithmetic: the time from last_ticks to now
Elapsed(now, last_ticks) == (now - last_ticks + TickModulus) % TickModulus

\* a uartPassthrough that pauses the calling channel before it looks at
\* its value
uartPassthrough_PauseFirst(value, ctx) ==
  LET p   == IF value = <<>> THEN UpDefault ELSE upParse(SplitTokens(value), UpDefault)
      num == IF p.uart_name = kAuto THEN upFindAuto ELSE upFindNamed(p.uart_name)
  IN /\ UNCHANGED <<settingValue, sysState, configValue, reportInches, coords, coord_system,
                    decoded, ticks>>
     /\ cycleLog' = <<>>
     /\ homeRest' = <<>>
     /\ IF ~p.ok \/ num = 0 \/ num = MAX_N_UARTS
          THEN /\ paused' = paused \cup {outChannel}
               /\ UNCHANGED <<inPassthrough, up>>
               /\ pc' = "idle"
               /\ Finish(ctx, "InvalidValue", <<>>)
          ELSE /\ paused' = (paused \cup {outChannel})
                               \cup (IF upChannelOf(num) # "none" THEN {upChannelOf(num)} ELSE {})
               /\ inPassthrough' = inPassthrough \cup {num}
               /\ up' = [timeout |-> p.timeout, uart_num |-> num,
                         channel |-> upChannelOf(num), last_ticks |-> ticks,
                         moved |-> FALSE]
               /\ pc' = "relay"
               /\ Finish(ctx, "Running", <<>>)

\* uartPassthrough up to the relay loop
uartPassthrough(value, ctx) ==
  LET p   == IF value = <<>> THEN UpDefault ELSE upParse(SplitTokens(value), UpDefault)
      num == IF p.uart_name = kAuto THEN upFindAuto ELSE upFindNamed(p.uart_name)
  IN /\ UNCHANGED <<settingValue, sysState, configValue, reportInches, coords, coord_system,
                    decoded, ticks>>
     /\ cycleLog' = <<>>
     /\ homeRest' = <<>>
     /\ IF ~p.ok \/ num = 0 \/ num = MAX_N_UARTS
          THEN /\ UNCHANGED upState
               /\ pc' = "idle"
               /\ Finish(ctx, "InvalidValue", <<>>)
          ELSE /\ paused' = (paused \cup {outChannel})
                               \cup (IF upChannelOf(num) # "none" THEN {upChannelOf(num)} ELSE {})
               /\ inPassthrough' = inPassthrough \cup {num}
               /\ up' = [timeout |-> p.timeout, uart_num |-> num,
                         channel |-> upChannelOf(num), last_ticks |-> ticks,
                         moved |-> FALSE]
               /\ pc' = "relay"
               /\ Finish(ctx, "Running", <<>>)

(***************************************************************************)
(* Machine-control commands.                                               *)
(***************************************************************************)
\* a check-mode toggle that tests for Idle before it tests for ConfigAlarm
toggle_check_mode_IdleFirst(value, ctx) ==
  /\ UNCHANGED <<settingValue, configValue, reportInches, coords, coord_system, decoded,
                 upState, ticks>>
  /\ cycleLog' = <<>> /\ Returned
  /\ IF sysState = "CheckMode"
       THEN UNCHANGED sysState /\ Finish(Call(ctx, "sys.abort"), "Ok", <<>>)
     ELSE IF sysState # "Idle"
       THEN UNCHANGED sysState /\ Finish(ctx, "IdleError", <<>>)
     ELSE sysState' = "CheckMode" /\ Finish(ctx, "Ok", <<>>)

\* $C: sys.abort is set when check mode is left
toggle_check_mode(value, ctx) ==
  /\ UNCHANGED <<settingValue, configValue, reportInches, coords, coord_system, decoded,
                 upState, ticks>>
  /\ cycleLog' = <<>> /\ Returned
  /\ IF sysState = "ConfigAlarm"
       THEN UNCHANGED sysState /\ Finish(ctx, "ConfigurationInvalid", <<>>)
     ELSE IF sysState = "CheckMode"
       THEN UNCHANGED sysState /\ Finish(Call(ctx, "sys.abort"), "Ok", <<>>)
     ELSE IF sysState # "Idle"
       THEN UNCHANGED sysState /\ Finish(ctx, "IdleError", <<>>)
     ELSE sysState' = "CheckMode" /\ Finish(ctx, "Ok", <<>>)

\* an isStuck that looks at the safety door only
isStuck_DoorOnly ==
  IF doorAjar THEN "CheckDoor" ELSE "Ok"

\* isStuck: the error, "Ok" when nothing blocks the unlock
isStuck ==
  IF doorAjar THEN "CheckDoor"
  ELSE IF stuck THEN "CheckControlPins"
  ELSE "Ok"

\* an unlock without the test for ConfigAlarm
disable_alarm_lock_NoConfigCheck(value, ctx) ==
  /\ UNCHANGED <<settingValue, configValue, reportInches, coords, coord_system, decoded,
                 upState, ticks>>
  /\ cycleLog' = <<>> /\ Returned
  /\ IF sysState = "Alarm"
       THEN IF isStuck # "Ok"
              THEN UNCHANGED sysState /\ Finish(Call(ctx, "send_alarm"), isStuck, <<>>)
              ELSE /\ sysState' = "Idle"
                   /\ Finish(Call(Call(Call(ctx, "set_all_axes_homed"), "releaseMotors"),
                                  "after_unlock"), "Ok", <<>>)
     ELSE UNCHANGED sysState /\ Finish(Call(ctx, "after_unlock"), "Ok", <<>>)

\* $X: the after_unlock macro runs even if no unlock was necessary
disable_alarm_lock(value, ctx) ==
  /\ UNCHANGED <<settingValue, configValue, reportInches, coords, coord_system, decoded,
                 upState, ticks>>
  /\ cycleLog' = <<>> /\ Returned
  /\ IF sysState = "ConfigAlarm"
       THEN UNCHANGED sysState /\ Finish(ctx, "ConfigurationInvalid", <<>>)
     ELSE IF sysState = "Alarm"
       THEN IF isStuck # "Ok"
              THEN UNCHANGED sysState /\ Finish(Call(ctx, "send_alarm"), isStuck, <<>>)
              ELSE /\ sysState' = "Idle"
                   /\ Finish(Call(Call(Call(ctx, "set_all_axes_homed"), "releaseMotors"),
                                  "after_unlock"), "Ok", <<>>)
     ELSE UNCHANGED sysState /\ Finish(Call(ctx, "after_unlock"), "Ok", <<>>)

\* what gc_execute_line returns for a jog line
JogOutcomes == {"Ok", "InvalidJogCommand"}

\* $J: the line $J=value is given to the G-code interpreter, which starts
\* the jog when it accepts the line
doJog(value, ctx) ==
  /\ UNCHANGED <<settingValue, configValue, reportInches, coords, coord_system, decoded,
                 upState, ticks>>
  /\ cycleLog' = <<>> /\ Returned
  /\ IF sysState = "ConfigAlarm"
       THEN UNCHANGED sysState /\ Finish(ctx, "ConfigurationInvalid", <<>>)
     ELSE IF value = <<>>
       THEN UNCHANGED sysState /\ Finish(ctx, "InvalidStatement", <<>>)
     ELSE \E result \in JogOutcomes :
            /\ sysState' = IF result = "Ok" THEN "Jog" ELSE sysState
            /\ Finish([Call(ctx, "gc_execute_line")
                         EXCEPT !.gcode = <<"$","J","=">> \o value], result, <<>>)

\* the calls of axes->set_disable(i, disable) for the axes named in value
RECURSIVE AxisCalls(_, _, _)
AxisCalls(ctx, value, i) ==
  IF i > Len(AxisNames) THEN ctx
  ELSE AxisCalls(IF \E k \in 1..Len(value) :
                       value[k] = AxisNames[i] \/ value[k] = ToLower(AxisNames[i])
                   THEN Call(ctx, "set_disable_" \o AxisNames[i]) ELSE ctx,
                 value, i + 1)

\* $MD and $ME
motor_control(value, disable, ctx) ==
  /\ UNCHANGED <<settingValue, sysState, configValue, reportInches, coords, coord_system,
                 decoded, upState, ticks>>
  /\ cycleLog' = <<>> /\ Returned
  /\ IF sysState = "ConfigAlarm"
       THEN Finish(ctx, "ConfigurationInvalid", <<>>)
     ELSE IF trimLeft(value) = <<>>
       THEN Finish(Call(ctx, "Axes::set_disable"), "Ok", <<>>)
     ELSE IF sharedDisable
       THEN Finish(ctx, "InvalidStatement", <<>>)
     ELSE Finish(AxisCalls(ctx, trimLeft(value), 1), "Ok", <<>>)

\* AsyncUserCommand registers a command that is not synchronous
synchronous(cp) == cp.action # "doJog"

\* a branch that drains the motion buffer before it asks the gate
RunCommand_SyncFirst(ci, value, auth_level, ctx0) ==
  LET cp  == CommandList[ci]
      ctx == [ctx0 EXCEPT !.kind = "command", !.index = ci,
                          !.denied = auth_failed(cp.permissions, value, auth_level)]
      syn == IF synchronous(cp) THEN Call(ctx, "protocol_buffer_synchronize") ELSE ctx
  IN IF auth_failed(cp.permissions, value, auth_level)
       THEN NoEffect(syn, "AuthenticationFailed")
     ELSE IF StateGuard(cp.checker, sysState) # "Ok"
       THEN NoEffect(syn, StateGuard(cp.checker, sysState))
     ELSE LET run == [syn EXCEPT !.action = cp.action]
          IN CASE cp.action = "home_all"           -> home_all(value, run)
               [] cp.action = "restore_settings"   -> restore_settings(value, run)
               [] cp.action = "switchInchMM"       -> switchInchMM(value, run)
               [] cp.action = "home_x"             -> home_axis("X", run)
               [] cp.action = "home_y"             -> home_axis("Y", run)
               [] cp.action = "uartPassthrough"    -> uartPassthrough(value, run)
               [] cp.action = "toggle_check_mode"  -> toggle_check_mode(value, run)
               [] cp.action = "disable_alarm_lock" -> disable_alarm_lock(value, run)
               [] cp.action = "doJog"              -> doJog(value, run)
               [] cp.action = "motor_disable"      -> motor_control(value, TRUE, run)
               [] cp.action = "motor_enable"       -> motor_control(value, FALSE, run)
               [] cp.action = "list_settings"      -> list_settings(value, run)
               [] cp.action = "list_changed_settings"
                                                   -> list_changed_settings(value, run)
               [] OTHER                            -> NoEffect(run, "Ok")

\* the Command branch of do_command_or_setting; the state guard is the first
\* thing cp->action does
RunCommand(ci, value, auth_level, ctx0) ==
  LET cp  == CommandList[ci]
      ctx == [ctx0 EXCEPT !.kind = "command", !.index = ci,
                          !.denied = auth_failed(cp.permissions, value, auth_level)]
      syn == IF synchronous(cp) THEN Call(ctx, "protocol_buffer_synchronize") ELSE ctx
  IN IF auth_failed(cp.permissions, value, auth_level)
       THEN NoEffect(ctx, "AuthenticationFailed")
     ELSE IF StateGuard(cp.checker, sysState) # "Ok"
       THEN NoEffect(syn, StateGuard(cp.checker, sysState))
     ELSE LET run == [syn EXCEPT !.action = cp.action]
          IN CASE cp.action = "home_all"           -> home_all(value, run)
               [] cp.action = "restore_settings"   -> restore_settings(value, run)
               [] cp.action = "switchInchMM"       -> switchInchMM(value, run)
               [] cp.action = "home_x"             -> home_axis("X", run)
               [] cp.action = "home_y"             -> home_axis("Y", run)
               [] cp.action = "uartPassthrough"    -> uartPassthrough(value, run)
               [] cp.action = "toggle_check_mode"  -> toggle_check_mode(value, run)
               [] cp.action = "disable_alarm_lock" -> disable_alarm_lock(value, run)
               [] cp.action = "doJog"              -> doJog(value, run)
               [] cp.action = "motor_disable"      -> motor_control(value, TRUE, run)
               [] cp.action = "motor_enable"       -> motor_control(value, FALSE, run)
               [] cp.action = "list_settings"      -> list_settings(value, run)
               [] cp.action = "list_changed_settings"
                                                   -> list_changed_settings(value, run)
               [] OTHER                            -> NoEffect(run, "Ok")

\* the structured-configuration branch
RunConfig(value, ctx0) ==
  LET ctx == [ctx0 EXCEPT !.kind = "config"]
  IN /\ UNCHANGED <<settingValue, sysState, reportInches, coords, coord_system, decoded>>
     /\ UNCHANGED <<upState, ticks>>
     /\ cycleLog' = <<>> /\ Returned
     /\ IF value = <<>>
          THEN UNCHANGED configValue
               /\ Finish(ctx, "Ok", <<[name |-> ConfigItem, value |-> configValue]>>)
        ELSE \E cfg \in ConfigOutcomes :
               /\ configValue' = IF cfg.phase = "group" THEN configValue ELSE value
               /\ Finish([ctx EXCEPT !.raised = cfg.exc],
                         IF cfg.exc = "none" THEN "Ok"
                         ELSE IF Catches(cfg.phase, cfg.exc) THEN "ConfigurationInvalid"
                         ELSE "Thrown", <<>>)

\* Setting::setStringValue of a string setting
setStringValue(i, s) ==
  /\ settingValue' = [settingValue EXCEPT ![i] = s]

\* a Setting branch of do_command_or_setting, by canonical or by legacy name
RunSetting(i, byGrbl, value, ctx0) ==
  LET ctx == [ctx0 EXCEPT !.kind = IF byGrbl THEN "alias" ELSE "name", !.index = i]
      s   == settingList[i]
  IN /\ UNCHANGED <<sysState, configValue, reportInches, coords, coord_system>>
     /\ UNCHANGED <<upState, ticks>>
     /\ cycleLog' = <<>> /\ Returned
     /\ IF value = <<>>
          THEN /\ UNCHANGED <<settingValue, decoded>>
               /\ Finish(ctx, "Ok",
                         IF byGrbl THEN <<show_setting(s.grblName, getCompatibleValue(i))>>
                                   ELSE <<show_setting(s.name, getStringValue(i))>>)
          ELSE /\ Len(uriDecode(decoded, value)) <= MaxDecoded
               /\ decoded' = uriDecode(decoded, value)
               /\ setStringValue(i, decoded')
               /\ Finish(ctx, "Ok", <<>>)

\* the pattern branch
RunPattern(key, value, ctx0) ==
  /\ UNCHANGED <<settingValue, sysState, configValue, reportInches, coords, coord_system,
                 decoded, upState, ticks>>
  /\ cycleLog' = <<>> /\ Returned
  /\ IF value = <<>> /\ PatternShown(key, 1) # <<>>
       THEN Finish([ctx0 EXCEPT !.kind = "pattern"], "Ok", PatternShown(key, 1))
       ELSE Finish(ctx0, "InvalidStatement", <<>>)

\* a resolver that looks at the legacy names of the Settings first
do_command_or_setting_AliasFirst(key, value, auth_level, ctx) ==
  IF SettingByGrblName(key) # 0
    THEN RunSetting(SettingByGrblName(key), TRUE, value, ctx)
  ELSE IF CommandMatch(key) # 0
    THEN RunCommand(CommandMatch(key), value, auth_level, ctx)
  ELSE IF ConfigHandles(key)
    THEN RunConfig(value, ctx)
  ELSE IF SettingByName(key) # 0
    THEN RunSetting(SettingByName(key), FALSE, value, ctx)
  ELSE RunPattern(key, value, ctx)

do_command_or_setting(key, value, auth_level, ctx) ==
  IF CommandMatch(key) # 0
    THEN RunCommand(CommandMatch(key), value, auth_level, ctx)
  ELSE IF ConfigHandles(key)
    THEN RunConfig(value, ctx)
  ELSE IF SettingByName(key) # 0
    THEN RunSetting(SettingByName(key), FALSE, value, ctx)
  ELSE IF SettingByGrblName(key) # 0
    THEN RunSetting(SettingByGrblName(key), TRUE, value, ctx)
  ELSE RunPattern(key, value, ctx)

\* a settings_execute_line that is entered again while a command blocks
settings_execute_line_Reentrant(line, auth_level) ==
  /\ LET sp  == split(Tail(line), IF Head(line) = "[" THEN "]" ELSE "=")
         key == trim(sp.key)
     IN do_command_or_setting(key, sp.value, auth_level,
                              Ctx(line, auth_level, key, sp.value, sp.found))
  /\ loopIters' = 0
  /\ rtPumps' = 0
  /\ UNCHANGED <<settingList, coord_select, axisHoming, doorAjar, pinsBlock, upEnv>>

\* settings_execute_line, called when no earlier line is still being processed
settings_execute_line(line, auth_level) ==
  /\ pc = "idle"
  /\ LET sp  == split(Tail(line), IF Head(line) = "[" THEN "]" ELSE "=")
         key == trim(sp.key)
     IN do_command_or_setting(key, sp.value, auth_level,
                              Ctx(line, auth_level, key, sp.value, sp.found))
  /\ loopIters' = 0
  /\ rtPumps' = 0
  /\ UNCHANGED <<settingList, coord_select, axisHoming, doorAjar, pinsBlock, upEnv>>

\* a line that changes nothing and starts no loop
Quiet(ctx, err) ==
  /\ NoEffect(ctx, err)
  /\ loopIters' = 0
  /\ rtPumps' = 0
  /\ UNCHANGED <<settingList, coord_select, axisHoming, doorAjar, pinsBlock, upEnv>>

\* what gc_execute_line returns for a line of G-code
GcOutcomes == {"Ok", "GcodeUnsupportedCommand", "Reset"}

\* an execute_line that does not lock G-code out while a jog runs
execute_line_NoJogLock(line, auth_level) ==
  LET rest == trimLeft(line)
      ctx  == Ctx(line, auth_level, <<>>, <<>>, FALSE)
  IN IF line = <<>>
       THEN pc = "idle" /\ Quiet([ctx EXCEPT !.kind = "empty"], "Ok")
     ELSE IF rest # <<>> /\ Head(rest) \in {"$", "["}
       THEN IF skip_blocks
              THEN pc = "idle" /\ Quiet([ctx EXCEPT !.kind = "skipped"], "Ok")
              ELSE settings_execute_line(rest, auth_level)
     ELSE IF sysState \in {"Alarm", "ConfigAlarm"}
       THEN pc = "idle" /\ Quiet([ctx EXCEPT !.kind = "gcode"], "SystemGcLock")
     ELSE /\ pc = "idle"
          /\ \E result \in GcOutcomes, job \in BOOLEAN :
               LET gc == [Call(ctx, "gc_execute_line") EXCEPT !.kind = "gcode", !.gcode = rest]
               IN Quiet(IF result \notin {"Ok", "Reset"} /\ job
                          THEN Call(gc, "send_alarm") ELSE gc, result)

\* execute_line: the entry for a line of a channel; job is Job::active()
execute_line(line, auth_level) ==
  LET rest == trimLeft(line)
      ctx  == Ctx(line, auth_level, <<>>, <<>>, FALSE)
  IN IF line = <<>>
       THEN pc = "idle" /\ Quiet([ctx EXCEPT !.kind = "empty"], "Ok")
     ELSE IF rest # <<>> /\ Head(rest) \in {"$", "["}
       THEN IF skip_blocks
              THEN pc = "idle" /\ Quiet([ctx EXCEPT !.kind = "skipped"], "Ok")
              ELSE settings_execute_line(rest, auth_level)
     ELSE IF sysState \in {"Alarm", "ConfigAlarm", "Jog"}
       THEN pc = "idle" /\ Quiet([ctx EXCEPT !.kind = "gcode"], "SystemGcLock")
     ELSE /\ pc = "idle"
          /\ \E result \in GcOutcomes, job \in BOOLEAN :
               LET gc == [Call(ctx, "gc_execute_line") EXCEPT !.kind = "gcode", !.gcode = rest]
               IN Quiet(IF result \notin {"Ok", "Reset"} /\ job
                          THEN Call(gc, "send_alarm") ELSE gc, result)

\* a loop that tests the state before it calls protocol_execute_realtime()
HomeWait_TestFirst ==
  /\ pc = "home_wait"
  /\ UNCHANGED <<settingList, coord_select, axisHoming, doorAjar, pinsBlock,
                 settingValue, configValue, reportInches, coords, coord_system, decoded>>
  /\ UNCHANGED <<upEnv, upState, ticks>>
  /\ IF sysState = "Homing"
       THEN /\ loopIters' = Sat(loopIters)
            /\ rtPumps' = Sat(rtPumps)
            /\ UNCHANGED <<sysState, pc, homeRest, cycleLog, last>>
     ELSE IF homeRest = <<>>
       THEN /\ UNCHANGED <<sysState, cycleLog, loopIters, rtPumps>>
            /\ Returned
            /\ last' = [last EXCEPT !.err = "Ok"]
     ELSE /\ UNCHANGED <<loopIters, rtPumps>>
          /\ RunHome(homeRest, cycleLog, [last EXCEPT !.changed = FALSE])

\* a wait loop that gives up after MaxCount passes
HomeWait_GivesUp ==
  /\ pc = "home_wait"
  /\ UNCHANGED <<settingList, coord_select, axisHoming, doorAjar, pinsBlock,
                 settingValue, configValue, reportInches, coords, coord_system, decoded>>
  /\ UNCHANGED <<upEnv, upState, ticks>>
  /\ loopIters' = Sat(loopIters)
  /\ rtPumps' = Sat(rtPumps)
  /\ IF sysState = "Homing" /\ loopIters < MaxCount
       THEN UNCHANGED <<sysState, pc, homeRest, cycleLog, last>>
     ELSE IF homeRest = <<>>
       THEN /\ UNCHANGED <<sysState, cycleLog>>
            /\ Returned
            /\ last' = [last EXCEPT !.err = "Ok"]
     ELSE RunHome(homeRest, cycleLog, [last EXCEPT !.changed = FALSE])

\* a home() that reports a cycle that ended in Alarm as an error, which
\* ends the list
HomeWait_AlarmFails ==
  /\ pc = "home_wait"
  /\ UNCHANGED <<settingList, coord_select, axisHoming, doorAjar, pinsBlock,
                 settingValue, configValue, reportInches, coords, coord_system, decoded>>
  /\ UNCHANGED <<upEnv, upState, ticks>>
  /\ loopIters' = Sat(loopIters)
  /\ rtPumps' = Sat(rtPumps)
  /\ IF sysState = "Homing"
       THEN UNCHANGED <<sysState, pc, homeRest, cycleLog, last>>
     ELSE IF sysState = "Alarm"
       THEN /\ UNCHANGED <<sysState, cycleLog>>
            /\ Returned
            /\ last' = [last EXCEPT !.err = "Unknown"]
     ELSE IF homeRest = <<>>
       THEN /\ UNCHANGED <<sysState, cycleLog>>
            /\ Returned
            /\ last' = [last EXCEPT !.err = "Ok"]
     ELSE RunHome(homeRest, cycleLog, [last EXCEPT !.changed = FALSE])

\* one pass of the loop of home(): protocol_execute_realtime(), then the test
\* of the state; when the state has left Homing home() returns Ok and
\* home_all goes on with the next cycle of the list
HomeWait ==
  /\ pc = "home_wait"
  /\ UNCHANGED <<settingList, coord_select, axisHoming, doorAjar, pinsBlock,
                 settingValue, configValue, reportInches, coords, coord_system, decoded>>
  /\ UNCHANGED <<upEnv, upState, ticks>>
  /\ loopIters' = Sat(loopIters)
  /\ rtPumps' = Sat(rtPumps)
  /\ IF sysState = "Homing"
       THEN UNCHANGED <<sysState, pc, homeRest, cycleLog, last>>
     ELSE IF homeRest = <<>>
       THEN /\ UNCHANGED <<sysState, cycleLog>>
            /\ Returned
            /\ last' = [last EXCEPT !.err = "Ok"]
     ELSE RunHome(homeRest, cycleLog, [last EXCEPT !.changed = FALSE])

\* a relay loop that leaves the channel of the uart paused
Relay_KeepsWrapper ==
  /\ pc = "relay"
  /\ UNCHANGED <<settingList, coord_select, axisHoming, doorAjar, pinsBlock, settingValue,
                 configValue, reportInches, coords, coord_system, decoded, sysState,
                 homeRest, cycleLog, rtPumps, upEnv>>
  /\ IF Elapsed(ticks, up.last_ticks) < up.timeout
       THEN \E d1, d2 \in {0, TickStep}, upstream_len, downstream_len \in {0, 1} :
              LET t1 == (ticks + d1) % TickModulus
                  l1 == IF upstream_len > 0 THEN t1 ELSE up.last_ticks
                  t2 == (t1 + d2) % TickModulus
                  l2 == IF downstream_len > 0 THEN t2 ELSE l1
              IN /\ ticks' = t2
                 /\ up' = [up EXCEPT !.last_ticks = l2,
                                      !.moved = (upstream_len > 0 \/ downstream_len > 0)]
                 /\ loopIters' = Sat(loopIters)
                 /\ UNCHANGED <<paused, inPassthrough, pc, last>>
       ELSE /\ inPassthrough' = inPassthrough \ {up.uart_num}
            /\ paused' = paused \ {outChannel}
            /\ up' = UpIdle
            /\ pc' = "idle"
            /\ last' = [last EXCEPT !.err = "Ok"]
            /\ UNCHANGED <<ticks, loopIters>>

\* a relay loop in which bytes from the uart do not restart the timer
Relay_UpstreamOnly ==
  /\ pc = "relay"
  /\ UNCHANGED <<settingList, coord_select, axisHoming, doorAjar, pinsBlock, settingValue,
                 configValue, reportInches, coords, coord_system, decoded, sysState,
                 homeRest, cycleLog, rtPumps, upEnv>>
  /\ IF Elapsed(ticks, up.last_ticks) < up.timeout
       THEN \E d1, d2 \in {0, TickStep}, upstream_len, downstream_len \in {0, 1} :
              LET t1 == (ticks + d1) % TickModulus
                  l1 == IF upstream_len > 0 THEN t1 ELSE up.last_ticks
                  t2 == (t1 + d2) % TickModulus
                  l2 == l1
              IN /\ ticks' = t2
                 /\ up' = [up EXCEPT !.last_ticks = l2,
                                      !.moved = (upstream_len > 0 \/ downstream_len > 0)]
                 /\ loopIters' = Sat(loopIters)
                 /\ UNCHANGED <<paused, inPassthrough, pc, last>>
       ELSE /\ inPassthrough' = inPassthrough \ {up.uart_num}
            /\ paused' = (paused \ {up.channel}) \ {outChannel}
            /\ up' = UpIdle
            /\ pc' = "idle"
            /\ last' = [last EXCEPT !.err = "Ok"]
            /\ UNCHANGED <<ticks, loopIters>>

\* one test of the condition of the relay loop of uartPassthrough and, when
\* it holds, one pass of the body: up to 10 ms waiting for bytes from the
\* upstream channel, then up to 10 ms waiting for bytes from the uart; when
\* it fails, the statements after the loop
Relay ==
  /\ pc = "relay"
  /\ UNCHANGED <<settingList, coord_select, axisHoming, doorAjar, pinsBlock, settingValue,
                 configValue, reportInches, coords, coord_system, decoded, sysState,
                 homeRest, cycleLog, rtPumps, upEnv>>
  /\ IF Elapsed(ticks, up.last_ticks) < up.timeout
       THEN \E d1, d2 \in {0, TickStep}, upstream_len, downstream_len \in {0, 1} :
              LET t1 == (ticks + d1) % TickModulus
                  l1 == IF upstream_len > 0 THEN t1 ELSE up.last_ticks
                  t2 == (t1 + d2) % TickModulus
                  l2 == IF downstream_len > 0 THEN t2 ELSE l1
              IN /\ ticks' = t2
                 /\ up' = [up EXCEPT !.last_ticks = l2,
                                      !.moved = (upstream_len > 0 \/ downstream_len > 0)]
                 /\ loopIters' = Sat(loopIters)
                 /\ UNCHANGED <<paused, inPassthrough, pc, last>>
       ELSE /\ inPassthrough' = inPassthrough \ {up.uart_num}
            /\ paused' = (paused \ {up.channel}) \ {outChannel}
            /\ up' = UpIdle
            /\ pc' = "idle"
            /\ last' = [last EXCEPT !.err = "Ok"]
            /\ UNCHANGED <<ticks, loopIters>>

\* the control core ends a homing cycle: completed, or failed with an alarm
ControlCore ==
  /\ sysState = "Homing"
  /\ sysState' \in {"Idle", "Alarm"}
  /\ UNCHANGED <<settingList, settingValue, decoded, configValue, reportInches, coords,
                 coord_system, coord_select, axisHoming, doorAjar, pinsBlock, pc,
                 homeRest, cycleLog, last, loopIters, rtPumps, upEnv, upState, ticks>>

\* the safety door is opened or closed while a homing command waits
Door ==
  /\ pc = "home_wait"
  /\ doorAjar' = ~doorAjar
  /\ UNCHANGED <<settingList, settingValue, decoded, sysState, configValue, reportInches,
                 coords, coord_system, coord_select, axisHoming, pinsBlock, pc,
                 homeRest, cycleLog, last, loopIters, rtPumps, upEnv, upState, ticks>>

(***************************************************************************)
(* The lines that arrive.                                                  *)
(***************************************************************************)
\* $key
D(key) == <<"$">> \o key
\* $key=value
DV(key, value) == <<"$">> \o key \o <<"=">> \o value
\* [key]value
BV(key, value) == <<"[">> \o key \o <<"]">> \o value

kRST == <<"R","S","T">>
kSSID == <<"S","t","a","/","S","S","I","D">>
kMessage == <<"S","t","a","r","t","/","M","e","s","s","a","g","e">>
kInches == <<"R","e","p","o","r","t","/","I","n","c","h","e","s">>
kESP700 == <<"E","S","P","7","0","0">>

\* all sequences over alphabet of length 1..n
RECURSIVE SeqsUpTo(_, _)
SeqsUpTo(alphabet, n) ==
  IF n = 0 THEN {}
  ELSE LET shorter == SeqsUpTo(alphabet, n - 1)
       IN {<<c>> : c \in alphabet} \cup shorter
            \cup {Append(s, c) : s \in {t \in shorter : Len(t) = n - 1}, c \in alphabet}

\* the clear texts a client percent-encodes before it writes them
ClearTexts == SeqsUpTo({"a", "%", "!", "?", "~"}, MaxClearLen)

EncodedWrites == {DV(kMessage, uriEncodeGrblCharacters(c)) : c \in ClearTexts}

CommandLines ==
  { <<"$">>, D(<<"H">>),
    DV(kRST, <<"*">>), DV(kRST, <<"#">>), D(<<"r","s","t">>), DV(kRST, <<>>),
    DV(kRST, <<"x">>),
    BV(<<"S","e","t","t","i","n","g","s","/","R","e","s","t","o","r","e">>, <<"@">>),
    D(<<"1","3">>), DV(<<"1","3">>, <<"1">>), DV(kInches, <<"1">>),
    BV(kESP700, <<"a">>), BV(kESP700, <<>>) }

SettingLines ==
  { D(<<"b","o","a","r","d">>), DV(<<"B","o","a","r","d">>, <<"x">>),
    D(kSSID), DV(kSSID, <<>>), DV(<<"s","t","a","/","s","s","i","d">>, <<"a","%","2">>),
    BV(kSSID, <<"%","6","1">>), D(<<" ","S","t","a","/","S","S","I","D"," ">>),
    D(<<"1","0">>), DV(<<"1","0">>, <<>>), DV(<<"1","0">>, <<"a">>) }

PatternLines ==
  { D(<<"S","t","a","*">>), DV(<<"S","t","a","*">>, <<>>), DV(<<"S","t","a","*">>, <<"a">>),
    D(<<"z","z">>), DV(<<"z","z">>, <<"a">>), D(<<"1">>), D(<<"^","s","*","e","$">>) }

Lines == CommandLines \cup SettingLines \cup PatternLines

\* values with a malformed escape, and well-formed ones
RawWrites ==
  {DV(kSSID, v) : v \in {<<"%">>, <<"%","4">>, <<"a","%","2">>, <<"%","G","1">>,
                          <<"%","2","g">>, <<"b","%","4","1">>, <<"%","6","1","%">>}}

CodecLines == EncodedWrites \cup RawWrites \cup {D(kSSID), D(kMessage)}

\* the values given to $H
HomeValues == SeqsUpTo({"1", "2", "3"}, MaxHomeLen)
                \cup {<<"X">>, <<"x","z">>, <<"2","X">>, <<"X","2">>, <<"Q">>, <<"X","3">>}

HomeLines ==
  {D(<<"H">>), D(<<"h","o","m","e">>), D(<<"H","X">>), D(<<"H","Y">>)}
    \cup {DV(<<"H">>, v) : v \in HomeValues}

\* the tokens given to $RST, and writes that move Settings off their defaults
RestoreTokens ==
  { <<"$">>, <<"s","e","t","t","i","n","g","s">>, <<"#">>, <<"g","c","o","d","e">>,
    <<"*">>, <<"a","l","l">>, <<"@">>, <<"w","i","f","i">>, <<"x">>, <<"$","#">> }

RestoreLines ==
  {D(kRST)} \cup {DV(kRST, t) : t \in RestoreTokens}
    \cup {DV(kSSID, <<"a">>), DV(<<"1","0">>, <<"a">>), DV(<<"L","i","n","e","0">>, <<"a">>),
          DV(<<"L","i","n","e","1">>, <<"a">>)}

\* the values given to $UP
UpValues ==
  { kAuto, <<"A","u","t","o">>, kUart1, kUart2, <<"u","a","r","t","x">>,
    <<"1","s">>, <<"0","s">>, kUart2 \o <<",","0","s">>, <<"3","S",",">> \o kUart1,
    <<"x","s">>, <<"s">>, kUart1 \o <<",","1","x","s">> }

UpLines == {D(<<"U","P">>)} \cup {DV(<<"U","P">>, v) : v \in UpValues}

\* lines that start a homing run or a passthrough, and one that does neither
BlockingLines ==
  { D(<<"H">>), DV(<<"H">>, <<"1","2">>), D(<<"H","X">>),
    D(<<"U","P">>), DV(<<"U","P">>, <<"0","s">>), DV(<<"U","P">>, kUart2 \o <<",","1","s">>),
    D(<<"1","3">>) }

\* the listing commands, and writes that move Settings off their defaults
ListLines ==
  { D(<<"S">>), DV(<<"S">>, <<"x">>), D(<<"S","C">>), DV(<<"s","c">>, <<"x">>),
    DV(kSSID, <<"a">>), DV(kSSID, <<>>), DV(kMessage, <<"b">>),
    DV(<<"U","s","e","r","P","a","s","s","w","o","r","d">>, <<"c">>) }

\* lines of G-code, empty lines and lines of the machine-control commands
ControlLines ==
  { <<>>, <<" ">>, <<"G","0">>, <<" ","G","0">>,
    D(<<"C">>), D(<<"X">>), <<" ">> \o D(<<"X">>), BV(<<"X">>, <<>>),
    D(<<"J">>), DV(<<"J">>, <<"X","1">>),
    D(<<"M","D">>), DV(<<"M","D">>, <<" ">>), DV(<<"M","E">>, <<"x","Z">>),
    DV(<<"M","D">>, <<"Q">>),
    DV(kRST, <<"#">>), DV(<<"1","3">>, <<"1">>), D(<<"z","z">>) }

(***************************************************************************)
(* Specifications.                                                         *)
(***************************************************************************)
NoLine ==
  [Ctx(<<>>, "LEVEL_ADMIN", <<>>, <<>>, FALSE) EXCEPT !.err = "Ok"]

MachineDefault == [X |-> Hom(TRUE, 1, TRUE), Y |-> Hom(TRUE, 2, TRUE), Z |-> Hom(TRUE, 2, TRUE)]

\* no block skipping, no stuck control pin, one disable pin per axis
NoControlInputs == skip_blocks = FALSE /\ stuck = FALSE /\ sharedDisable = FALSE

InitCommon ==
  /\ settingValue = [i \in 1..Len(settingList) |-> settingList[i].default]
  /\ decoded = <<>>
  /\ configValue = <<"c">>
  /\ reportInches = FALSE
  /\ coords = [idx \in CoordIndex |-> IF idx = "G54" THEN 5 ELSE 0]
  /\ coord_select = "G54"
  /\ coord_system = 5
  /\ pc = "idle"
  /\ homeRest = <<>>
  /\ cycleLog = <<>>
  /\ last = NoLine
  /\ nLines = 0
  /\ loopIters = 0
  /\ rtPumps = 0
  /\ paused = {}
  /\ inPassthrough = {}
  /\ up = UpIdle
  /\ uartChannels = UartChannelList

Init ==
  /\ uartCfg = <<NoUart, NoUart>>
  /\ outChannel = "uart_channel0"
  /\ ticks = 0
  /\ settingList \in {SettingsPlain, SettingsShadowed}
  /\ sysState \in {"Idle", "ConfigAlarm"}
  /\ axisHoming = MachineDefault
  /\ doorAjar = FALSE
  /\ pinsBlock = FALSE
  /\ NoControlInputs
  /\ InitCommon

InitCodec ==
  /\ uartCfg = <<NoUart, NoUart>>
  /\ outChannel = "uart_channel0"
  /\ ticks = 0
  /\ settingList = SettingsPlain
  /\ sysState = "Idle"
  /\ axisHoming = MachineDefault
  /\ doorAjar = FALSE
  /\ pinsBlock = FALSE
  /\ NoControlInputs
  /\ InitCommon

InitHoming ==
  /\ uartCfg = <<NoUart, NoUart>>
  /\ outChannel = "uart_channel0"
  /\ ticks = 0
  /\ settingList = SettingsPlain
  /\ sysState \in {"Idle", "Alarm", "ConfigAlarm"}
  /\ axisHoming \in MachineConfigs
  /\ doorAjar \in BOOLEAN
  /\ pinsBlock \in BOOLEAN
  /\ NoControlInputs
  /\ InitCommon

InitList ==
  /\ uartCfg = <<NoUart, NoUart>>
  /\ outChannel = "uart_channel0"
  /\ ticks = 0
  /\ settingList = SettingsWithPin
  /\ sysState \in {"Idle", "Alarm", "Cycle"}
  /\ axisHoming = MachineDefault
  /\ doorAjar = FALSE
  /\ pinsBlock = FALSE
  /\ NoControlInputs
  /\ InitCommon

InitRestore ==
  /\ uartCfg = <<NoUart, NoUart>>
  /\ outChannel = "uart_channel0"
  /\ ticks = 0
  /\ settingList = SettingsRestorable
  /\ sysState \in {"Idle", "Alarm"}
  /\ axisHoming = MachineDefault
  /\ doorAjar = FALSE
  /\ pinsBlock = FALSE
  /\ NoControlInputs
  /\ InitCommon

InitControl ==
  /\ uartCfg = <<NoUart, NoUart>>
  /\ outChannel = "uart_channel0"
  /\ ticks = 0
  /\ settingList = SettingsPlain
  /\ sysState \in {"Idle", "Alarm", "ConfigAlarm", "Jog", "CheckMode", "Cycle"}
  /\ axisHoming = MachineDefault
  /\ doorAjar \in BOOLEAN
  /\ pinsBlock = FALSE
  /\ skip_blocks \in BOOLEAN
  /\ stuck \in BOOLEAN
  /\ sharedDisable \in BOOLEAN
  /\ InitCommon

InitBlocking ==
  /\ uartCfg = <<Uart(TRUE, kUart1, 115200), Uart(TRUE, kUart2, 115200)>>
  /\ outChannel = "uart_channel0"
  /\ ticks = 0
  /\ settingList = SettingsPlain
  /\ sysState \in {"Idle", "Alarm"}
  /\ axisHoming = MachineDefault
  /\ doorAjar = FALSE
  /\ pinsBlock = FALSE
  /\ NoControlInputs
  /\ InitCommon

InitPass ==
  /\ uartCfg \in UartConfigs
  /\ outChannel \in {"uart_channel0", "uart_channel1"}
  /\ ticks \in {0, TickModulus - TickStep}
  /\ settingList = SettingsPlain
  /\ sysState \in {"Idle", "ConfigAlarm"}
  /\ axisHoming = MachineDefault
  /\ doorAjar = FALSE
  /\ pinsBlock = FALSE
  /\ NoControlInputs
  /\ InitCommon

Dispatch(lines, levels) ==
  \E line \in lines, auth_level \in levels : settings_execute_line(line, auth_level)

\* a step that sends one of at most MaxLines lines
Counted(A) == nLines < MaxLines /\ A /\ nLines' = nLines + 1

Free(A) == A /\ UNCHANGED nLines

Next ==
  \/ Counted(Dispatch(Lines, Levels))
  \/ Free(HomeWait)
  \/ Free(ControlCore)
  \/ Free(Door)

NextCodec == Free(Dispatch(CodecLines, {"LEVEL_ADMIN"}))

NextHoming ==
  \/ Free(Dispatch(HomeLines, {"LEVEL_USER"}))
  \/ Free(HomeWait)
  \/ Free(ControlCore)
  \/ Free(Door)

NextList == Free(Dispatch(ListLines, Levels))

NextRestore == Free(Dispatch(RestoreLines, {"LEVEL_ADMIN", "LEVEL_USER"}))

NextPass ==
  \/ Free(Dispatch(UpLines, {"LEVEL_GUEST"}))
  \/ Free(Relay)

Execute(lines, levels) ==
  \E line \in lines, auth_level \in levels : execute_line(line, auth_level)

NextControl == Free(Execute(ControlLines, {"LEVEL_GUEST", "LEVEL_ADMIN"}))

NextBlocking ==
  \/ Free(Execute(BlockingLines, {"LEVEL_GUEST"}))
  \/ Free(HomeWait)
  \/ Free(ControlCore)
  \/ Free(Relay)

Spec == Init /\ [][Next]_vars

SpecCodec == InitCodec /\ [][NextCodec]_vars

SpecHoming == InitHoming /\ [][NextHoming]_vars
\* the task of the wait loop keeps running, and the control core ends every
\* homing cycle, by completing it or by an alarm
SpecHomingLive ==
  SpecHoming /\ WF_vars(Free(HomeWait)) /\ WF_vars(Free(ControlCore))
SpecList == InitList /\ [][NextList]_vars
SpecRestore == InitRestore /\ [][NextRestore]_vars
SpecPass == InitPass /\ [][NextPass]_vars
SpecControl == InitControl /\ [][NextControl]_vars
SpecBlocking == InitBlocking /\ [][NextBlocking]_vars
\* the task that runs the relay loop is scheduled again and again
SpecPassLive == SpecPass /\ WF_vars(Free(Relay))

(***************************************************************************)
(* Properties of the authentication gate and of the resolver.              *)
(***************************************************************************)
\* the table of the gate: who is denied what
Denies(level, permission, isWrite) ==
  \/ level = "LEVEL_GUEST" /\ permission # "WG"
  \/ level = "LEVEL_USER" /\ isWrite /\ permission = "WA"

\* the line dispatched last found a Command
OnCommand == last.line # <<>> /\ last.kind = "command"

\* the line dispatched last found a Setting, by either name
OnSetting == last.line # <<>> /\ last.kind \in {"name", "alias"}

\* the line carried a value: something follows the separator, or it is the
\* form $key= with nothing after the =
ValueSupplied == last.value # <<>> \/ (last.hasSep /\ Head(last.line) = "$")

\* C1: for every level, permission and read or write, auth_failed denies
\* exactly a Guest on an entry that is not WG and a User writing a WA entry;
\* a denied call returns AuthenticationFailed and no other call does
C1_AuthGateTable ==
  OnCommand =>
    /\ last.denied = Denies(last.level, CommandList[last.index].permissions,
                            last.value # <<>>)
    /\ (last.err = "AuthenticationFailed") = last.denied

C1_Witness ==
  /\ OnCommand
  /\ last.level = "LEVEL_USER"
  /\ CommandList[last.index].permissions = "WA"
  /\ last.value # <<>>
  /\ last.err = "AuthenticationFailed"

\* C2: a write to any Entry that the gate denies returns AuthenticationFailed
\* and changes no setting and no machine state
C2_DeniedWriteChangesNothing ==
  (/\ last.line # <<>>
   /\ last.value # <<>>
   /\ last.kind \in {"command", "name", "alias"}
   /\ Denies(last.level,
             IF last.kind = "command" THEN CommandList[last.index].permissions
                                      ELSE settingList[last.index].permissions,
             TRUE))
  => (last.err = "AuthenticationFailed" /\ ~last.changed)

\* the exact lookups of the resolver, stated on the registry
NamesCommand(key) ==
  \E i \in 1..Len(CommandList) :
     \/ equal_ignore_case(CommandList[i].name, key)
     \/ equal_ignore_case(CommandList[i].grblName, key)

NamesConfig(key) == equal_ignore_case(ConfigItem, key)

NamesSetting(key) ==
  \E i \in 1..Len(settingList) : equal_ignore_case(settingList[i].name, key)

NamesAlias(key) ==
  \E i \in 1..Len(settingList) :
     settingList[i].hasGrbl /\ equal_ignore_case(settingList[i].grblName, key)

\* C3: the resolver acts on the first match in the order Command, structured
\* configuration, Setting by name, Setting by legacy name; a key that names
\* a Command and a Setting's legacy name runs the Command and neither shows
\* nor writes the Setting
C3_ResolutionOrder ==
  last.line # <<>> =>
    /\ NamesCommand(last.key) =>
         /\ last.kind = "command"
         /\ \/ equal_ignore_case(CommandList[last.index].name, last.key)
            \/ equal_ignore_case(CommandList[last.index].grblName, last.key)
         /\ \A i \in 1..Len(settingList) :
              (settingList[i].hasGrbl /\ equal_ignore_case(settingList[i].grblName, last.key))
                => /\ (last.action # "restore_settings" => i \notin last.written)
                   /\ \A j \in 1..Len(last.shown) :
                        last.shown[j].value # uriEncodeGrblCharacters(settingValue[i])
    /\ (~NamesCommand(last.key) /\ NamesConfig(last.key)) =>
         (last.kind = "config" /\ last.written = {})
    /\ (~NamesCommand(last.key) /\ ~NamesConfig(last.key) /\ NamesSetting(last.key)) =>
         (last.kind = "name" /\ equal_ignore_case(settingList[last.index].name, last.key))
    /\ (/\ ~NamesCommand(last.key) /\ ~NamesConfig(last.key)
        /\ ~NamesSetting(last.key) /\ NamesAlias(last.key)) =>
         /\ last.kind = "alias"
         /\ equal_ignore_case(settingList[last.index].grblName, last.key)
    /\ (/\ ~NamesCommand(last.key) /\ ~NamesConfig(last.key)
        /\ ~NamesSetting(last.key) /\ ~NamesAlias(last.key)) =>
         last.kind \in {"pattern", "none"}

\* $13=1 where a Setting has the legacy name 13: the Command ran
C3_Witness ==
  /\ settingList = SettingsShadowed
  /\ last.key = <<"1","3">>
  /\ last.value = <<"1">>
  /\ last.kind = "command"
  /\ last.err = "Ok"
  /\ reportInches
  /\ settingValue[2] = <<"7">>

\* C4: with no exact match, a supplied value gives InvalidStatement and
\* changes nothing; no value gives Ok exactly when a canonical Setting name
\* matches the pattern
C4_PatternOnlyForReads ==
  (/\ last.line # <<>>
   /\ ~NamesCommand(last.key) /\ ~NamesConfig(last.key)
   /\ ~NamesSetting(last.key) /\ ~NamesAlias(last.key))
  => IF ValueSupplied
       THEN last.err = "InvalidStatement" /\ ~last.changed
       ELSE /\ last.err \in {"Ok", "InvalidStatement"}
            /\ (last.err = "Ok") =
                 (\E i \in 1..Len(settingList) : regexMatch(last.key, settingList[i].name))

\* C5: on a Setting, no separator is a read; $key= with nothing after it
\* sets the Setting to the empty string and displays nothing; a non-empty
\* value is a write of what uriDecode returned
C5_ThreeValueStates ==
  OnSetting =>
    /\ ~ValueSupplied =>
         (last.err = "Ok" /\ last.written = {} /\ Len(last.shown) = 1)
    /\ (ValueSupplied /\ last.value = <<>>) =>
         (settingValue[last.index] = <<>> /\ last.shown = <<>>)
    /\ last.value # <<>> =>
         (settingValue[last.index] = decoded /\ last.shown = <<>>)

(***************************************************************************)
(* Properties of the percent codec, under SpecCodec.                       *)
(***************************************************************************)
\* C6: a clear text that was percent-encoded with uriEncodeGrblCharacters
\* and written to a Setting is stored as the clear text, on every write
C6_EncodeDecodeIdentity ==
  \A c \in ClearTexts :
     (OnSetting /\ last.value # <<>> /\ last.value = uriEncodeGrblCharacters(c))
       => settingValue[last.index] = c

\* values with a malformed escape, and the decoding of what precedes it
BadEscapes ==
  { [value |-> <<"%">>,             prefix |-> <<>>],
    [value |-> <<"%","4">>,         prefix |-> <<>>],
    [value |-> <<"a","%","2">>,     prefix |-> <<"a">>],
    [value |-> <<"%","G","1">>,     prefix |-> <<>>],
    [value |-> <<"%","2","g">>,     prefix |-> <<>>],
    [value |-> <<"%","6","1","%">>, prefix |-> <<"a">>] }

\* C7: a value with a malformed escape is decoded to exactly the characters
\* of the part of that value that precedes the malformed escape
C7_MalformedEscapeTruncates ==
  \A m \in BadEscapes :
     (OnSetting /\ last.value = m.value) => settingValue[last.index] = m.prefix

(***************************************************************************)
(* Properties of the homing orchestrator, under SpecHoming.                *)
(***************************************************************************)
\* the line dispatched last gave home_all a value made of digits only
OnCycleList ==
  /\ last.line # <<>>
  /\ last.action = "home_all"
  /\ last.value # <<>>
  /\ \A i \in 1..Len(last.value) : isdigit(last.value[i])

\* the axes configured for the cycle that a digit names
AxesOfDigit(d) ==
  {a \in AxisSet : axisHoming[a].has /\ axisHoming[a].cycle = DigitVal(d)}

\* the i-th cycle started is the cycle of the i-th digit
InListOrder ==
  OnCycleList =>
    /\ Len(cycleLog) <= Len(last.value)
    /\ \A i \in 1..Len(cycleLog) : cycleLog[i] = AxesOfDigit(last.value[i])
    /\ last.err = "Ok" => Len(cycleLog) = Len(last.value)

\* a step that starts a cycle after the first of a list
StartsLaterCycle == cycleLog # <<>> /\ Len(cycleLog') > Len(cycleLog)

\* C8: the cycles of a digit list are started in the left-to-right order of
\* the digits, and a cycle after the first is started only in a state in
\* which the machine has left Homing
C8_CyclesInListOrder ==
  /\ []InListOrder
  /\ [][StartsLaterCycle => (pc = "home_wait" /\ sysState # "Homing")]_vars

\* $H=21 has run cycle 2 and then cycle 1
C8_Witness ==
  /\ OnCycleList
  /\ last.value = <<"2","1">>
  /\ last.err = "Ok"
  /\ cycleLog = <<{"Y","Z"}, {"X"}>>

\* C9: a digit anywhere in the value that names a cycle without axes makes
\* home_all return InvalidValue with no cycle started and nothing changed
C9_BadDigitRunsNothing ==
  (/\ last.line # <<>>
   /\ last.action = "home_all"
   /\ \E i \in 1..Len(last.value) :
         isdigit(last.value[i]) /\ AxesOfDigit(last.value[i]) = {})
  => (last.err = "InvalidValue" /\ cycleLog = <<>> /\ ~last.changed /\ pc = "idle")

\* $H=13 on a machine with a cycle 1 and no cycle 3
C9_Witness ==
  /\ last.action = "home_all"
  /\ last.value = <<"1","3">>
  /\ AxesOfDigit("1") # {}
  /\ AxesOfDigit("3") = {}
  /\ last.err = "InvalidValue"
  /\ cycleLog = <<>>

\* C10: when home() returns an error for a cycle of a digit list, home_all
\* has returned that error and no later cycle of the list is started
C10_ErrorAbortsList ==
  (OnCycleList /\ last.err \notin {"Ok", "Running", "InvalidValue"})
  => /\ pc = "idle"
     /\ homeRest = <<>>
     /\ Len(cycleLog) < Len(last.value)
     /\ last.err = homeInterlock(AxesOfDigit(last.value[Len(cycleLog) + 1]))

\* $H=12 where cycle 2 may not be homed alone: cycle 1 ran, cycle 2 refused
C10_Witness ==
  /\ OnCycleList
  /\ Len(last.value) > Len(cycleLog)
  /\ cycleLog # <<>>
  /\ last.err = "SingleAxisHoming"
  /\ pc = "idle"

\* home_all was invoked on the line dispatched last
OnHomeAll == last.line # <<>> /\ last.action = "home_all"

\* a letter that names an axis of the machine
IsAxisLetter(c) == c \in {"X", "Y", "Z", "x", "y", "z"}

\* the axes that the letters of a value name
AxesNamed(value) ==
  {a \in AxisSet : \E i \in 1..Len(value) : value[i] = a \/ value[i] = ToLower(a)}

\* exactly one request was made, for mask: its cycle is the only one
\* started, or home() refused it with an interlock error
OneRequest(mask) ==
  \/ cycleLog = <<mask>> /\ last.err \in {"Running", "Ok"}
  \/ /\ cycleLog = <<>> /\ pc = "idle"
     /\ last.err # "Ok" /\ last.err = homeInterlock(mask)

\* C11: home_all makes one request for all cycles when there is no value,
\* one request for the named axes when the value has axis letters only, and
\* returns InvalidValue with no cycle started when the value has a letter
\* that names no axis or mixes digits and letters
C11_ValueClasses ==
  OnHomeAll =>
    /\ last.value = <<>> => OneRequest(AllCycles)
    /\ (last.value # <<>> /\ \A i \in 1..Len(last.value) : IsAxisLetter(last.value[i]))
         => OneRequest(AxesNamed(last.value))
    /\ (\E i \in 1..Len(last.value) :
           ~isdigit(last.value[i]) /\ ~IsAxisLetter(last.value[i]))
         => (last.err = "InvalidValue" /\ cycleLog = <<>> /\ ~last.changed)
    /\ (/\ \E i \in 1..Len(last.value) : isdigit(last.value[i])
        /\ \E i \in 1..Len(last.value) : ~isdigit(last.value[i]))
         => (last.err = "InvalidValue" /\ cycleLog = <<>> /\ ~last.changed)

\* $H=xz has homed X and Z in one cycle
C11_Witness ==
  /\ OnHomeAll
  /\ last.value = <<"x","z">>
  /\ cycleLog = <<{"X","Z"}>>
  /\ last.err = "Ok"

\* a homing command was invoked on the line dispatched last
OnHoming == last.line # <<>> /\ last.action \in {"home_all", "home_x", "home_y"}

\* a step in which home() calls run_cycles
StartsCycle == pc' = "home_wait" /\ (pc = "idle" \/ Len(cycleLog') > Len(cycleLog))

\* every interlock of home() passes for a request of mask
InterlocksPass(mask) ==
  /\ ~pinsBlock
  /\ sysState # "ConfigAlarm"
  /\ \E a \in AxisSet : axisHoming[a].has
  /\ ~doorAjar
  /\ mask # {} => \A a \in mask : axisHoming[a].has /\ axisHoming[a].allow

\* an interlock error names an interlock that fails, and nothing was changed
InterlockErrorsNamed ==
  (OnHoming /\ pc = "idle") =>
    /\ last.err = "CheckControlPins" => pinsBlock
    /\ last.err = "ConfigurationInvalid" => sysState = "ConfigAlarm"
    /\ last.err = "SettingDisabled" => \A a \in AxisSet : ~axisHoming[a].has
    /\ last.err = "CheckDoor" => doorAjar
    /\ last.err = "SingleAxisHoming" =>
         \E a \in AxisSet : ~(axisHoming[a].has /\ axisHoming[a].allow)
    /\ last.err \in {"CheckControlPins", "ConfigurationInvalid", "SettingDisabled",
                     "CheckDoor", "SingleAxisHoming"} => ~last.changed

HomeReturns == pc = "home_wait" /\ (pc' = "idle" \/ Len(cycleLog') > Len(cycleLog))

\* the smaller of two numbers
Least(a, b) == IF a < b THEN a ELSE b

\* C13: home() returns from its wait loop only in a state that is not
\* Homing, every pass of the loop has called protocol_execute_realtime(),
\* and every call of home() that has returned has called it at least once
C13_WaitsWhileHoming ==
  /\ [](OnHoming => rtPumps = loopIters)
  /\ [][HomeReturns => (sysState # "Homing"
                        /\ rtPumps' >= Least(Len(cycleLog), MaxCount))]_vars

\* a homing command has returned Ok after more than one pass of the loop
C13_Witness ==
  /\ OnHoming
  /\ pc = "idle"
  /\ last.err = "Ok"
  /\ cycleLog # <<>>
  /\ loopIters >= 2

(***************************************************************************)
(* Properties of the passthrough bridge, under SpecPass and SpecPassLive.  *)
(***************************************************************************)
\* uartPassthrough was invoked on the line dispatched last
OnUp == last.line # <<>> /\ last.action = "uartPassthrough"

\* C14: every pass of the wait loop of home() and of the relay loop of
\* uartPassthrough calls protocol_execute_realtime() at least once
C14_LoopsPumpRealtime ==
  (last.line # <<>>
   /\ last.action \in {"home_all", "home_x", "home_y", "uartPassthrough"})
  => rtPumps >= loopIters

\* no configured uart has passthrough enabled
NoneEnabled ==
  \A n \in 1..(MAX_N_UARTS - 1) :
     ~(uartCfg[n].present /\ uartCfg[n].passthrough_baud # 0)

\* no configured uart has the name
NamesNoUart(name) ==
  \A n \in 1..(MAX_N_UARTS - 1) : ~(uartCfg[n].present /\ uartCfg[n].name = name)

\* a configured uart has the name and passthrough disabled
NamesDisabledUart(name) ==
  \E n \in 1..(MAX_N_UARTS - 1) :
     uartCfg[n].present /\ uartCfg[n].name = name /\ uartCfg[n].passthrough_baud = 0

\* the value of $UP is one that must be refused
UpRefused ==
  \/ last.value \in {<<>>, kAuto, <<"A","u","t","o">>} /\ NoneEnabled
  \/ /\ last.value \in {kUart1, kUart2, <<"u","a","r","t","x">>}
     /\ (NamesNoUart(last.value) \/ NamesDisabledUart(last.value))
  \/ last.value \in {<<"x","s">>, <<"s">>, kUart1 \o <<",","1","x","s">>}

\* C15: with target auto and no uart enabled for passthrough, with a name
\* of no configured uart, with the name of a uart that has passthrough
\* disabled, or with a timeout token that is not a decimal number,
\* uartPassthrough returns InvalidValue and no channel is paused and no
\* uart enters passthrough mode
C15_RefusedBeforePause ==
  /\ []((OnUp /\ UpRefused) =>
          (last.err = "InvalidValue" /\ pc = "idle" /\ paused = {} /\ inPassthrough = {}))
  /\ [][(last'.action = "uartPassthrough" /\ last'.err = "InvalidValue")
          => (paused' = paused /\ inPassthrough' = inPassthrough)]_vars

\* $UP=uart2 where uart2 is configured without passthrough_baud
C15_Witness ==
  /\ OnUp
  /\ last.value = kUart2
  /\ uartCfg[2].present
  /\ uartCfg[2].passthrough_baud = 0
  /\ last.err = "InvalidValue"
  /\ paused = {}

\* C16: when uartPassthrough has returned, the calling channel and the
\* channel of the uart are not paused and the uart is not in passthrough
\* mode, as before the call; while it runs they are paused and the uart is
\* in passthrough mode
C16_ReleasedOnExit ==
  /\ [](pc = "idle" => (paused = {} /\ inPassthrough = {}))
  /\ [](pc = "relay" =>
          /\ outChannel \in paused
          /\ up.channel # "none" => up.channel \in paused
          /\ paused \subseteq {outChannel, up.channel}
          /\ inPassthrough = {up.uart_num})
  /\ [][(pc = "relay" /\ pc' = "idle") => (paused' = {} /\ inPassthrough' = {})]_vars

\* $UP=uart1 from the console has returned: the channel on uart 1 was
\* paused and is resumed
C16_Witness ==
  /\ OnUp
  /\ last.value = kUart1
  /\ outChannel = "uart_channel0"
  /\ last.err = "Ok"
  /\ pc = "idle"
  /\ loopIters >= 1
  /\ paused = {}
  /\ inPassthrough = {}

\* the timeout in ms that the value of $UP asks for
ConfiguredTimeout ==
  CASE last.value \in {<<>>, kAuto, <<"A","u","t","o">>, kUart1, kUart2} -> 2000
    [] last.value = <<"1","s">> -> 1000
    [] last.value \in {<<"0","s">>, kUart2 \o <<",","0","s">>} -> 0
    [] last.value = <<"3","S",",">> \o kUart1 -> 3000
    [] OTHER -> -1

\* C17: the relay loop runs with the timeout the value asks for, a pass
\* that moved bytes has restarted the timer, the loop is left only when the
\* timeout has elapsed since the timer was started, and once it has elapsed
\* the loop is left and the command returns Ok
C17_EndsByInactivity ==
  /\ []((OnUp /\ pc = "relay") =>
          /\ up.timeout = ConfiguredTimeout
          /\ up.moved => Elapsed(ticks, up.last_ticks) <= TickStep)
  /\ [][(pc = "relay" /\ pc' = "idle")
          => (Elapsed(ticks, up.last_ticks) >= up.timeout /\ last'.err = "Ok")]_vars
  /\ ((pc = "relay" /\ Elapsed(ticks, up.last_ticks) >= up.timeout)
        ~> (pc = "idle" /\ last.err = "Ok"))

\* three seconds without bytes have passed, across the wrap of the tick count
C17_Witness ==
  /\ OnUp
  /\ pc = "relay"
  /\ up.timeout = 3000
  /\ loopIters >= 2
  /\ ticks < up.last_ticks
  /\ Elapsed(ticks, up.last_ticks) >= 3000

(***************************************************************************)
(* Properties of the restore engine, under SpecRestore.                    *)
(***************************************************************************)
\* restore_settings was invoked on the line dispatched last
OnRestore == last.line # <<>> /\ last.action = "restore_settings"

\* the category that a token names, "none" for every other value
RestoreCategory(token) ==
  CASE token \in {<<"$">>, <<"s","e","t","t","i","n","g","s">>} -> "Defaults"
    [] token \in {<<"#">>, <<"g","c","o","d","e">>}             -> "Parameters"
    [] token \in {<<"*">>, <<"a","l","l">>}                     -> "All"
    [] token \in {<<"@">>, <<"w","i","f","i">>}                 -> "Wifi"
    [] OTHER -> "none"

\* the flags of a category
CategoryFlags(category) ==
  IF category = "All" THEN {"Defaults", "Parameters", "StartupLines", "Wifi"}
  ELSE {category}

\* C18: restore_settings with no value or with an unknown token returns
\* InvalidStatement and resets nothing; with a known token it returns Ok
\* and does the restore of the category of that token
C18_RestoreTokens ==
  /\ []((OnRestore /\ RestoreCategory(last.value) = "none")
          => (last.err = "InvalidStatement" /\ ~last.changed))
  /\ [][(last'.action = "restore_settings" /\ RestoreCategory(last'.value) # "none")
          => LET flags == CategoryFlags(RestoreCategory(last'.value))
             IN /\ last'.err = "Ok"
                /\ settingValue' = [i \in DOMAIN settingValue |->
                                      IF RestoresSetting(flags, settingList[i])
                                        THEN settingList[i].default ELSE settingValue[i]]
                /\ coords' = IF "Parameters" \in flags
                               THEN [idx \in CoordIndex |-> 0] ELSE coords]_vars

\* $RST=settings has reset Report/Status and kept the startup line
C18_Witness ==
  /\ OnRestore
  /\ last.value = <<"s","e","t","t","i","n","g","s">>
  /\ last.err = "Ok"
  /\ 2 \in last.written
  /\ settingValue[3] # settingList[3].default
  /\ coords["G54"] # 0

\* C19: a restore of category # sets every coordinate offset to its
\* default, selects the active coordinate system again and changes the
\* value of no Setting
C19_ParametersOnlyCoords ==
  (OnRestore /\ last.value \in {<<"#">>, <<"g","c","o","d","e">>})
  => /\ last.err = "Ok"
     /\ \A idx \in CoordIndex : coords[idx] = 0
     /\ coord_system = coords[coord_select]
     /\ last.written = {}

\* $RST=# has reset the offsets while Settings are off their defaults
C19_Witness ==
  /\ OnRestore
  /\ last.value = <<"#">>
  /\ last.changed
  /\ coord_system = 0
  /\ \A i \in 1..Len(settingList) : settingValue[i] # settingList[i].default

\* C20: after a restore of category *, every Setting holds its default
\* value and every coordinate offset holds its default
C20_AllClearsEverything ==
  (OnRestore /\ last.value \in {<<"*">>, <<"a","l","l">>})
  => /\ last.err = "Ok"
     /\ \A i \in 1..Len(settingList) : settingValue[i] = settingList[i].default
     /\ \A idx \in CoordIndex : coords[idx] = 0

(***************************************************************************)
(* Properties of the machine-control commands and of execute_line, under   *)
(* SpecControl.                                                            *)
(***************************************************************************)
\* the calls of a dispatch other than the draining of the motion buffer
Effects(ctx) == SelectSeq(ctx.calls, LAMBDA c : c # "protocol_buffer_synchronize")

\* C21: $C in Alarm returns IdleError and leaves the state; in ConfigAlarm
\* it returns ConfigurationInvalid; in Idle it sets the state to CheckMode
\* and returns Ok; in no state other than Idle does it enter CheckMode
C21_CheckModeGuard ==
  [][last'.action = "toggle_check_mode"
       => /\ sysState = "Alarm"
               => (last'.err = "IdleError" /\ sysState' = "Alarm")
          /\ sysState = "ConfigAlarm"
               => (last'.err = "ConfigurationInvalid" /\ sysState' = "ConfigAlarm")
          /\ sysState = "Idle"
               => (last'.err = "Ok" /\ sysState' = "CheckMode")
          /\ sysState # "Idle" => sysState' = sysState]_vars

\* $C has taken the machine from Idle to CheckMode
C21_Witness ==
  /\ last.action = "toggle_check_mode"
  /\ last.err = "Ok"
  /\ last.changed
  /\ sysState = "CheckMode"

\* the first character of a line after its leading whitespace, "" when
\* there is none
FirstChar(line) == IF trimLeft(line) = <<>> THEN "" ELSE Head(trimLeft(line))

IsCommandLine(line) == FirstChar(line) \in {"$", "["}

\* C22: in Alarm, ConfigAlarm and Jog a non-empty line that does not begin
\* (after leading whitespace) with $ or [ is rejected with SystemGcLock and
\* is not given to the G-code interpreter; a line that begins with $ or [
\* is dispatched, and is skipped with Ok while block skipping is active
C22_GcodeLockedOut ==
  /\ (last.line # <<>> /\ ~IsCommandLine(last.line)
        /\ sysState \in {"Alarm", "ConfigAlarm", "Jog"})
       => (last.err = "SystemGcLock" /\ last.calls = <<>> /\ last.gcode = <<>>)
  /\ (IsCommandLine(last.line) /\ ~skip_blocks)
       => (last.kind \notin {"gcode", "skipped", "empty"} /\ last.err # "SystemGcLock")
  /\ (IsCommandLine(last.line) /\ skip_blocks)
       => (last.kind = "skipped" /\ last.err = "Ok" /\ last.calls = <<>> /\ ~last.changed)

\* a line of G-code has been refused while a jog runs
C22_Witness ==
  /\ sysState = "Jog"
  /\ last.line = <<" ","G","0">>
  /\ last.err = "SystemGcLock"

\* the states in which the cmdChecker of a command lets it run
AllowedIn(checker) ==
  CASE checker = "anyState"          -> States
    [] checker = "allowConfigStates" -> {"Idle", "Alarm", "ConfigAlarm"}
    [] checker = "notIdleOrAlarm"    -> {"Idle", "Alarm"}
    [] checker = "notIdleOrJog"      -> {"Idle", "Jog"}

\* C25: the action of a Command runs only if the caller passes the gate
\* for the Command and the state satisfies its allowed-state predicate;
\* when the gate denies, neither the draining of the motion buffer nor
\* the action is performed
C25_ActionNeedsBothChecks ==
  /\ [](last.denied => (last.action = "none" /\ last.calls = <<>>
                          /\ last.err = "AuthenticationFailed" /\ ~last.changed))
  /\ [][last'.action # "none"
          => LET cp == CommandList[last'.index]
             IN /\ last'.kind = "command"
                /\ ~Denies(last'.level, cp.permissions, last'.value # <<>>)
                /\ sysState \in AllowedIn(cp.checker)]_vars

\* the gate has refused a synchronous Command and nothing was drained
C25_Witness ==
  /\ last.kind = "command"
  /\ last.denied
  /\ synchronous(CommandList[last.index])
  /\ last.calls = <<>>
  /\ last.err = "AuthenticationFailed"

\* the Command of the line dispatched is one of those named
Targets(ctx, actions) ==
  ctx.kind = "command" /\ ~ctx.denied /\ CommandList[ctx.index].action \in actions

\* C29: in ConfigAlarm $C, $X, $J, $MD and $ME return ConfigurationInvalid
\* whatever their value is, and have no effect: the state stays
\* ConfigAlarm, no axis is marked homed, no motor is enabled or disabled,
\* no line reaches the G-code interpreter and no macro runs
C29_ConfigAlarmRefuses ==
  [][(sysState = "ConfigAlarm"
        /\ Targets(last', {"toggle_check_mode", "disable_alarm_lock", "doJog",
                           "motor_disable", "motor_enable"}))
       => /\ last'.err = "ConfigurationInvalid"
          /\ sysState' = "ConfigAlarm"
          /\ Effects(last') = <<>>
          /\ last'.gcode = <<>>
          /\ ~last'.changed]_vars

\* $X has been refused in ConfigAlarm
C29_Witness ==
  /\ sysState = "ConfigAlarm"
  /\ Targets(last, {"disable_alarm_lock"})
  /\ last.action = "disable_alarm_lock"
  /\ last.err = "ConfigurationInvalid"

\* the calls by which $X unlocks
Unlocks(ctx) ==
  \E i \in 1..Len(ctx.calls) : ctx.calls[i] \in {"set_all_axes_homed", "releaseMotors"}

RunsMacro(ctx) == \E i \in 1..Len(ctx.calls) : ctx.calls[i] = "after_unlock"

\* C30: $X takes the machine from Alarm to Idle only when the safety door
\* is not ajar and no control pin is stuck; with the door ajar it returns
\* CheckDoor, with a stuck pin CheckControlPins, and then the state stays
\* Alarm, no axis is marked homed and the after_unlock macro is not run; in
\* a state other than Alarm and ConfigAlarm it changes no state, runs the
\* macro and returns Ok
C30_UnlockInterlocks ==
  [][last'.action = "disable_alarm_lock"
       => /\ (sysState = "Alarm" /\ sysState' # "Alarm") => (~doorAjar /\ ~stuck)
          /\ (sysState = "Alarm" /\ ~doorAjar /\ ~stuck)
               => (sysState' = "Idle" /\ last'.err = "Ok" /\ RunsMacro(last'))
          /\ (sysState = "Alarm" /\ (doorAjar \/ stuck))
               => /\ last'.err = IF doorAjar THEN "CheckDoor" ELSE "CheckControlPins"
                  /\ sysState' = "Alarm"
                  /\ ~Unlocks(last')
                  /\ ~RunsMacro(last')
          /\ sysState \notin {"Alarm", "ConfigAlarm"}
               => /\ sysState' = sysState
                  /\ ~last'.changed
                  /\ ~Unlocks(last')
                  /\ RunsMacro(last')
                  /\ last'.err = "Ok"]_vars

\* $X has been refused in Alarm because a control pin is stuck
C30_Witness ==
  /\ last.action = "disable_alarm_lock"
  /\ sysState = "Alarm"
  /\ stuck /\ ~doorAjar
  /\ last.err = "CheckControlPins"

(***************************************************************************)
(* Properties of the results of the resolver, under Spec.                  *)
(***************************************************************************)
\* the result codes, values of Error
ResultCodes ==
  {"Ok", "InvalidStatement", "InvalidValue", "AuthenticationFailed", "ConfigurationInvalid",
   "IdleError", "CheckDoor", "CheckControlPins", "SingleAxisHoming", "SettingDisabled",
   "SystemGcLock", "InvalidJogCommand", "GcodeUnsupportedCommand", "Reset"}

Identity(ctx) == <<ctx.line, ctx.level, ctx.key, ctx.value, ctx.kind, ctx.index, ctx.action>>

C26_HomeReturnsWhenHomingEnds ==
  /\ \A n \in 1..(MaxHomeLen + 1) :
        (pc = "home_wait" /\ Len(cycleLog) = n) ~> (pc = "idle" \/ Len(cycleLog) # n)
  /\ [][(pc = "home_wait" /\ sysState = "Homing" /\ sysState' = "Homing")
          => (pc' = "home_wait" /\ cycleLog' = cycleLog /\ homeRest' = homeRest
                /\ last'.err = "Running")]_vars

\* home() has waited through several passes while the cycle ran, and has
\* returned
C26_Witness ==
  /\ pc = "idle"
  /\ last.action = "home_all"
  /\ last.err = "Ok"
  /\ cycleLog # <<>>
  /\ loopIters = MaxCount
  /\ sysState = "Idle"

(***************************************************************************)
(* Properties of the Defaults and Wifi restores, under SpecRestore.        *)
(***************************************************************************)
IsStartupLine(s) == s.name \in {<<"L","i","n","e","0">>, <<"L","i","n","e","1">>}

\* C27: a Defaults restore without the startup-line flag resets exactly the
\* Settings that have no description and are not named Line0 or Line1, and
\* leaves the others as they are; with the startup-line flag Line0 and
\* Line1 are reset as well
C27_DefaultsExemptStartupLines ==
  [][last'.action = "restore_settings"
       => /\ last'.value \in {<<"$">>, <<"s","e","t","t","i","n","g","s">>}
               => \A i \in 1..Len(settingList) :
                     settingValue'[i] =
                        IF ~settingList[i].described /\ ~IsStartupLine(settingList[i])
                          THEN settingList[i].default ELSE settingValue[i]
          /\ last'.value \in {<<"*">>, <<"a","l","l">>}
               => \A i \in 1..Len(settingList) :
                     ~settingList[i].described
                        => settingValue'[i] = settingList[i].default]_vars

\* $RST=$ has reset Report/Status and has left the two startup lines and
\* the described Setting off their defaults
C27_Witness ==
  /\ OnRestore
  /\ last.value = <<"$">>
  /\ last.written = {2}
  /\ settingValue[1] # settingList[1].default
  /\ settingValue[3] # settingList[3].default
  /\ settingValue[4] # settingList[4].default

\* C28: after a Wifi restore every Setting whose type is not WEBSET holds
\* its default value, and no Setting of type WEBSET was changed
C28_WifiResetsNonWeb ==
  (OnRestore /\ last.value \in {<<"@">>, <<"w","i","f","i">>})
  => /\ last.err = "Ok"
     /\ \A i \in 1..Len(settingList) :
           IF settingList[i].type # WEBSET
             THEN settingValue[i] = settingList[i].default
             ELSE i \notin last.written

(***************************************************************************)
(* The decode buffer across calls, under SpecCodec.                        *)
(***************************************************************************)
\* the decoding of s by a call of uriDecode that starts from an empty buffer
DecodedAlone(s) == uriDecode(<<>>, s)

\* C31: the result of uriDecode depends only on its argument: the value
\* stored by every write of a non-empty value is the decoding of that value
\* alone, with no character decoded during an earlier call in front of it
C31_DecodeDependsOnArgumentOnly ==
  (OnSetting /\ last.value # <<>>)
    => settingValue[last.index] = DecodedAlone(last.value)

(***************************************************************************)
(* The result of home() after its wait, under SpecHoming.                  *)
(***************************************************************************)
\* the pass of the wait loop that finds the state away from Homing
WaitEnds == pc = "home_wait" /\ sysState # "Homing" /\ doorAjar' = doorAjar

\* C32: a home() that has called run_cycles returns Ok when its wait ends,
\* in Idle and in Alarm alike: if it ran the last cycle the command returns
\* Ok, and in a digit list home() is called for the next cycle, which is
\* started unless an interlock of that call refuses it
C32_AlarmStillYieldsOk ==
  [][WaitEnds =>
       IF homeRest = <<>>
         THEN pc' = "idle" /\ last'.err = "Ok" /\ cycleLog' = cycleLog
       ELSE IF homeInterlock(Head(homeRest)) = "Ok"
         THEN /\ cycleLog' = Append(cycleLog, Head(homeRest))
              /\ last'.err = "Running"
       ELSE /\ pc' = "idle" /\ cycleLog' = cycleLog
            /\ last'.err = homeInterlock(Head(homeRest))]_vars

\* a digit list has run to its end and returned Ok with the machine in
\* Alarm; the call of run_cycles made last did not change the state, so the
\* cycle before it had ended in Alarm when the last cycle was started
C32_Witness ==
  /\ OnCycleList
  /\ pc = "idle"
  /\ last.err = "Ok"
  /\ Len(cycleLog) = Len(last.value)
  /\ Len(cycleLog) >= 2
  /\ ~last.changed
  /\ sysState = "Alarm"

(***************************************************************************)
(* The listing commands and the gate, under SpecList.                      *)
(***************************************************************************)
\* the listing shows Setting i with the placeholder, with its value
ShowsPlaceholder(i) ==
  \E k \in 1..Len(last.shown) :
     last.shown[k] = show_setting(settingList[i].name, Placeholder)

ShowsValue(i) ==
  \E k \in 1..Len(last.shown) :
     last.shown[k] = show_setting(settingList[i].name, settingValue[i])

\* the listing command named ran on the line dispatched last, and returned
Listed(action) == last.line # <<>> /\ last.action = action /\ last.err = "Ok"

\* C33: the listings apply the read rule of the gate: list_settings shows
\* the placeholder for a Setting exactly when the gate denies the caller a
\* read of it, and list_changed_settings shows a changed Setting that is not
\* a PIN exactly when the gate allows the caller a read of it
C33_ListingsApplyReadRule ==
  /\ Listed("list_settings") =>
       \A i \in 1..Len(settingList) :
          ShowsPlaceholder(i) <=> Denies(last.level, settingList[i].permissions, FALSE)
  /\ Listed("list_changed_settings") =>
       \A i \in 1..Len(settingList) :
          (settingList[i].type # PIN /\ settingValue[i] # settingList[i].default)
            => (ShowsValue(i) <=> ~Denies(last.level, settingList[i].permissions, FALSE))

====
